---------------------------- MODULE Spec2Model ----------------------------
(***************************************************************************)
(* Model of the copywriting-to-metafields pipeline of aliexpress-scrapper: *)
(* the Markdown section parser, the HTML section parser, the field         *)
(* normalizer, the rich-text encoder, the metafield update planner, the    *)
(* remote calls of the updater's run and the carousel scraper's cleanup.   *)
(*                                                                         *)
(* Text.  A Python str is modelled as a sequence of units.  A unit is one  *)
(* character ("-", " ", "*", ":", "\n", a digit, ...) or one fixed word    *)
(* written as a single TLA+ string ("Title", "ancho", "cm", ...).  Every   *)
(* regular expression of the source is evaluated unit by unit.  This       *)
(* agrees with the character-level evaluation because no word unit holds   *)
(* a character that a pattern treats specially (space, digit, "*", ":",    *)
(* "-", "?", ".", "#", "<", ">", "/") and the literal words of the         *)
(* patterns (title, body, video, br, faq, ...) occur in the inputs only as *)
(* whole units.                                                            *)
(***************************************************************************)
EXTENDS Integers, Sequences, FiniteSets, TLC

VARIABLES
    pc,                     \* position of the run inside the operation under study
    \* Rich-text encoder
    text,                   \* the input text
    enforce_two,            \* the enforce_two argument
    rtf,                    \* the returned document
    \* Field normalizer
    value,                  \* the raw value (or None)
    integer,                \* the integer argument
    normalized,             \* the returned value
    \* Markdown section parser
    content_md,             \* the Markdown document
    bullets,                \* bullets of section 1
    faq_answers,            \* answers of section 2
    details,                \* key -> value of section 3
    sec4_lines,             \* lines of section 4 still to be scanned
    video_title,            \* title captured so far
    video_body_lines,       \* body lines accumulated so far
    first_bullet_processed, \* a title has been captured
    parsed,                 \* the returned ParsedContent
    \* Metafield update planner
    product_gid,            \* owner reference of the product
    ids_map,                \* key -> remote identifier
    updates,                \* result of generate_put_updates
    inputs,                 \* result of build_missing_metafields_inputs
    \* HTML section parser
    content_html,           \* the content block of the analysis page
    html_lines,             \* stripped, non-empty lines still to be scanned
    section,                \* the current section
    data,                   \* the result built so far
    \* Remote gateway calls and the updater's run
    args,                   \* main: the command line and the files it names
    metafields,             \* the product's metafields as the remote lists them
    put_index,              \* execute_put_updates: position in "for upd in updates"
    results,                \* execute_put_updates: the results list
    offset,                 \* batch loops: the i of range(0, len(inputs), 25)
    all_results,            \* batch loops: metafields updated and errors so far
    remote_log,             \* every remote call made: its request and its outcome
    \* Carousel scraper (scrape_carousel)
    max_hovers,             \* the max_hovers argument
    thumbnails,             \* number of thumbnails found
    hover_index,            \* the i of "for i, thumbnail in enumerate(...)"
    hover_count,            \* self.hover_count
    prompts,                \* answers read at the confirmation prompt
    close_calls,            \* calls of self.browser.close()
    stop_calls,             \* calls of self.playwright.stop()
    pending                 \* what the try block ended with

encoderVars == <<text, enforce_two, rtf>>
normalizerVars == <<value, integer, normalized>>
markdownVars == <<content_md, bullets, faq_answers, details, sec4_lines, video_title, video_body_lines,
                  first_bullet_processed, parsed>>
plannerVars == <<product_gid, ids_map, updates, inputs>>
htmlVars == <<content_html, html_lines, section, data>>
gatewayVars == <<args, metafields, put_index, results, offset, all_results, remote_log>>
scraperVars == <<max_hovers, thumbnails, hover_index, hover_count, prompts,
                 close_calls, stop_calls, pending>>

vars == <<pc, encoderVars, normalizerVars, markdownVars, plannerVars, htmlVars,
          gatewayVars, scraperVars>>

\* Python's None: a value no str of the model equals ("None" is not a unit
\* of any input).
None == <<"None">>

\* The variables of the components a specification does not exercise.
EncoderIdle == text = None /\ enforce_two = FALSE /\ rtf = None
NormalizerIdle == value = None /\ integer = FALSE /\ normalized = None
MarkdownIdle ==
    /\ content_md = None /\ bullets = <<>> /\ faq_answers = <<>>
    /\ details = <<>> /\ sec4_lines = <<>> /\ video_title = None
    /\ video_body_lines = <<>> /\ first_bullet_processed = FALSE
    /\ parsed = None
PlannerIdle ==
    product_gid = None /\ ids_map = None /\ updates = None /\ inputs = None
HtmlIdle ==
    content_html = None /\ html_lines = <<>> /\ section = None /\ data = None
GatewayIdle ==
    /\ args = None /\ metafields = None /\ put_index = 0 /\ results = <<>>
    /\ offset = 0 /\ all_results = None /\ remote_log = <<>>
ScraperIdle ==
    /\ max_hovers = 0 /\ thumbnails = 0 /\ hover_index = 0 /\ hover_count = 0
    /\ prompts = 0 /\ close_calls = 0 /\ stop_calls = 0 /\ pending = "none"

(***************************************************************************)
(* Bounds of the model.                                                    *)
(***************************************************************************)
\* Longest text enumerated exhaustively for the rich-text encoder.
MaxTextLen == 5
\* Most sentences in a generated single-paragraph text.
MaxSentences == 4
\* Longest raw value enumerated exhaustively for the field normalizer.
MaxValueLen == 4
\* Most bullets and most FAQ answers in a ParsedContent given to the planner
\* (more than the five and three slots of the schema).
MaxBullets == 6
MaxFaqAnswers == 4

(***************************************************************************)
(* str helpers                                                             *)
(***************************************************************************)
\* What str.strip() removes and what \s matches, among the units used.
Whitespace == {" ", "\n", "\t", "\r"}

IsSpace(c) == c \in Whitespace

RECURSIVE LStrip(_)
LStrip(s) ==
    IF s = <<>> THEN <<>>
    ELSE IF IsSpace(Head(s)) THEN LStrip(Tail(s)) ELSE s

RECURSIVE RStrip(_)
RStrip(s) ==
    IF s = <<>> THEN <<>>
    ELSE IF IsSpace(s[Len(s)]) THEN RStrip(SubSeq(s, 1, Len(s) - 1)) ELSE s

\* str.strip()
Strip(s) == RStrip(LStrip(s))

\* s[i:] of Python for a 1-based first kept position i.
From(s, i) == SubSeq(s, i, Len(s))

\* s.startswith(p)
StartsWith(s, p) == Len(s) >= Len(p) /\ SubSeq(s, 1, Len(p)) = p

\* s.replace(old, new) for a one-unit old and a new that is a sequence.
RECURSIVE ReplaceUnit(_, _, _)
ReplaceUnit(s, old, new) ==
    IF s = <<>> THEN <<>>
    ELSE (IF Head(s) = old THEN new ELSE <<Head(s)>>)
         \o ReplaceUnit(Tail(s), old, new)

\* sep.join(parts)
RECURSIVE Join(_, _)
Join(parts, sep) ==
    IF parts = <<>> THEN <<>>
    ELSE IF Len(parts) = 1 THEN parts[1]
    ELSE parts[1] \o sep \o Join(Tail(parts), sep)

\* [f(x) for x in xs if keep(x)] building blocks.
RECURSIVE MapStrip(_)
MapStrip(xs) ==
    IF xs = <<>> THEN <<>> ELSE <<Strip(Head(xs))>> \o MapStrip(Tail(xs))

NonBlank(s) == Strip(s) # <<>>

RECURSIVE KeepNonBlank(_)
KeepNonBlank(xs) ==
    IF xs = <<>> THEN <<>>
    ELSE (IF NonBlank(Head(xs)) THEN <<Head(xs)>> ELSE <<>>)
         \o KeepNonBlank(Tail(xs))

(***************************************************************************)
(* Rich-Text Encoder                                                       *)
(***************************************************************************)
BoldMarker == <<"*", "*">>

\* re.split(r"(\*\*)", line): the pieces between the markers and the markers
\* themselves, matched leftmost and without overlap.  acc is the piece being
\* read.
RECURSIVE SplitBoldFrom(_, _)
SplitBoldFrom(line, acc) ==
    IF line = <<>> THEN <<acc>>
    ELSE IF StartsWith(line, BoldMarker)
         THEN <<acc, BoldMarker>> \o SplitBoldFrom(From(line, 3), <<>>)
         ELSE SplitBoldFrom(Tail(line), Append(acc, Head(line)))

SplitBold(line) == SplitBoldFrom(line, <<>>)

TextNode(p, bold) ==
    IF bold THEN [type |-> "text", value |-> p, bold |-> TRUE]
    ELSE [type |-> "text", value |-> p]

\* Faulty variant of BoldNodes: a marker switches bold on and never off.
RECURSIVE BoldNodesNeverOff(_, _)
BoldNodesNeverOff(parts, bold) ==
    IF parts = <<>> THEN <<>>
    ELSE IF Head(parts) = BoldMarker THEN BoldNodesNeverOff(Tail(parts), TRUE)
    ELSE IF Head(parts) = <<>> THEN BoldNodesNeverOff(Tail(parts), bold)
    ELSE <<TextNode(Head(parts), bold)>>
         \o BoldNodesNeverOff(Tail(parts), bold)

\* Faulty variant of BoldNodes: a piece of whitespace only is skipped like an empty
\* one ("if not p.strip()").
RECURSIVE BoldNodesDropBlank(_, _)
BoldNodesDropBlank(parts, bold) ==
    IF parts = <<>> THEN <<>>
    ELSE IF Head(parts) = BoldMarker THEN BoldNodesDropBlank(Tail(parts), ~bold)
    ELSE IF ~NonBlank(Head(parts)) THEN BoldNodesDropBlank(Tail(parts), bold)
    ELSE <<TextNode(Head(parts), bold)>>
         \o BoldNodesDropBlank(Tail(parts), bold)

\* The loop over parts: a marker toggles bold, an empty piece is skipped,
\* any other piece becomes a text node with the current flag.
RECURSIVE BoldNodes(_, _)
BoldNodes(parts, bold) ==
    IF parts = <<>> THEN <<>>
    ELSE IF Head(parts) = BoldMarker THEN BoldNodes(Tail(parts), ~bold)
    ELSE IF Head(parts) = <<>> THEN BoldNodes(Tail(parts), bold)
    ELSE <<TextNode(Head(parts), bold)>> \o BoldNodes(Tail(parts), bold)

Paragraph(nodes) == [type |-> "paragraph", children |-> nodes]

Root(children) == [type |-> "root", children |-> children]

\* line = text.replace("\r", "").replace("\n", " ").strip()
SingleLine(t) == Strip(ReplaceUnit(ReplaceUnit(t, "\r", <<>>), "\n", <<" ">>))

markdown_to_rich_text_json(t) ==
    Root(<<Paragraph(BoldNodes(SplitBold(SingleLine(t)), FALSE))>>)

\* re.split(r"\n{2,}", s): cut at every maximal run of two or more newlines.
RECURSIVE SplitParasFrom(_, _)
SplitParasFrom(s, acc) ==
    IF s = <<>> THEN <<acc>>
    ELSE IF StartsWith(s, <<"\n", "\n">>)
         THEN LET RECURSIVE SkipNl(_)
                  SkipNl(r) == IF r # <<>> /\ Head(r) = "\n"
                               THEN SkipNl(Tail(r)) ELSE r
              IN  <<acc>> \o SplitParasFrom(SkipNl(s), <<>>)
         ELSE SplitParasFrom(Tail(s), Append(acc, Head(s)))

SentenceEnd == {".", "!", "?"}

\* re.split(r"(?<=[\.!?])\s+", para): cut at every maximal whitespace run
\* that follows a sentence-ending unit.  prev is the unit read last.
RECURSIVE SplitSentencesFrom(_, _, _)
SplitSentencesFrom(s, acc, prev) ==
    IF s = <<>> THEN <<acc>>
    ELSE IF IsSpace(Head(s)) /\ prev \in SentenceEnd
         THEN <<acc>> \o SplitSentencesFrom(LStrip(s), <<>>, " ")
         ELSE SplitSentencesFrom(Tail(s), Append(acc, Head(s)), Head(s))

\* sentences = [s.strip() for s in re.split(...) if s.strip()]
Sentences(para) == MapStrip(KeepNonBlank(SplitSentencesFrom(para, <<>>, " ")))

\* paras = [p.strip() for p in re.split(r"\n{2,}", cleaned.strip()) if p.strip()]
InputParas(t) ==
    MapStrip(KeepNonBlank(
        SplitParasFrom(Strip(ReplaceUnit(t, "\r", <<>>)), <<>>)))

\* Faulty variant of Mid: the midpoint rounded up.
MidRoundedUp(n) == (n + 1) \div 2

\* mid = max(1, len(sentences) // 2)
Mid(n) == IF n \div 2 >= 1 THEN n \div 2 ELSE 1

\* The paragraphs after the optional forced split into two.
Paras(t, enforce) ==
    LET paras == InputParas(t)
    IN  IF enforce /\ Len(paras) < 2 /\ paras # <<>>
        THEN LET sentences == Sentences(paras[1])
                 mid == Mid(Len(sentences))
             IN  IF Len(sentences) >= 2
                 THEN << Join(SubSeq(sentences, 1, mid), <<" ">>),
                         Join(SubSeq(sentences, mid + 1, Len(sentences)),
                              <<" ">>) >>
                 ELSE paras
        ELSE paras

\* One pass of the loop over paras: line = para.replace("\n", " "), then the
\* same marker loop as in markdown_to_rich_text_json.
ParagraphOf(para) ==
    Paragraph(BoldNodes(SplitBold(ReplaceUnit(para, "\n", <<" ">>)), FALSE))

RECURSIVE ParagraphsOf(_)
ParagraphsOf(paras) ==
    IF paras = <<>> THEN <<>>
    ELSE <<ParagraphOf(Head(paras))>> \o ParagraphsOf(Tail(paras))

markdown_to_rich_text_json_paragraphs(t, enforce) ==
    LET children == ParagraphsOf(Paras(t, enforce))
    IN  IF children = <<>>
        THEN Root(<<Paragraph(<<[type |-> "text", value |-> <<>>]>>)>>)
        ELSE Root(children)

(***************************************************************************)
(* Field Normalizer                                                        *)
(***************************************************************************)
\* str.lower() on one unit: the capitalised and upper-case word units and
\* their lower-case forms; every other unit is its own lower-case form.
LowerUnit(u) ==
    CASE u = "No" -> "no"
      [] u = "NO" -> "no"
      [] u = "Disponible" -> "disponible"
      [] u = "DISPONIBLE" -> "disponible"
      [] u = "Sin" -> "sin"
      [] u = "Dato" -> "dato"
      [] u = "DATO" -> "dato"
      [] u = "Ancho" -> "ancho"
      [] u = "ANCHO" -> "ancho"
      [] u = "Longitud" -> "longitud"
      [] u = "Alto" -> "alto"
      [] u = "Piezas" -> "piezas"
      [] u = "Escala" -> "escala"
      [] u = "Title" -> "title"
      [] u = "TITLE" -> "title"
      [] u = "Body" -> "body"
      [] u = "BODY" -> "body"
      [] u = "Video" -> "video"
      [] u = "VIDEO" -> "video"
      [] u = "FAQ" -> "faq"
      [] u = "Faq" -> "faq"
      [] u = "Viñetas" -> "viñetas"
      [] u = "Detalles" -> "detalles"
      [] u = "Otra" -> "otra"
      [] u = "BR" -> "br"
      [] u = "Título" -> "título"
      [] u = "TÍTULO" -> "título"
      [] u = "Clave" -> "clave"
      [] u = "Cm" -> "cm"
      [] u = "A" -> "a"
      [] u = "B" -> "b"
      [] u = "X" -> "x"
      [] OTHER -> u

\* str.lower()
Lower(s) == [i \in 1..Len(s) |-> LowerUnit(s[i])]

ABSENCE_PHRASES ==
    { <<"no", " ", "observado", " ", "en", " ", "imágenes">>,
      <<"no", " ", "disponible">>,
      <<"no", " ", "disponible", " ", "en", " ", "imágenes">>,
      <<"sin", " ", "dato">> }

Digits == {"0", "1", "2", "3", "4", "5", "6", "7", "8", "9"}

IsDigit(c) == c \in Digits

\* The length of the longest run of digits at the start of s (\d* greedy).
RECURSIVE DigitRun(_)
DigitRun(s) ==
    IF s # <<>> /\ IsDigit(Head(s)) THEN 1 + DigitRun(Tail(s)) ELSE 0

\* Faulty variant of NumberMatchLen: only the dot is taken as a decimal
\* separator.
NumberMatchLenDotOnly(s) ==
    LET sign == IF s # <<>> /\ Head(s) = "-" THEN 1 ELSE 0
        whole == DigitRun(From(s, sign + 1))
        rest == From(s, sign + whole + 1)
        frac == IF rest # <<>> /\ Head(rest) = "."
                THEN DigitRun(Tail(rest)) ELSE 0
    IN  IF whole = 0 THEN 0
        ELSE sign + whole + (IF frac > 0 THEN 1 + frac ELSE 0)

\* The length of the match of -?\d+(?:[\.,]\d+)? at the start of s, 0 when
\* there is none.
NumberMatchLen(s) ==
    LET sign == IF s # <<>> /\ Head(s) = "-" THEN 1 ELSE 0
        whole == DigitRun(From(s, sign + 1))
        rest == From(s, sign + whole + 1)
        frac == IF rest # <<>> /\ Head(rest) \in {".", ","}
                THEN DigitRun(Tail(rest)) ELSE 0
    IN  IF whole = 0 THEN 0
        ELSE sign + whole + (IF frac > 0 THEN 1 + frac ELSE 0)

\* re.search(r"(-?\d+(?:[\.,]\d+)?)", v): the leftmost match, None when the
\* pattern matches nowhere.
RECURSIVE SearchNumber(_)
SearchNumber(v) ==
    IF v = <<>> THEN None
    ELSE IF NumberMatchLen(v) > 0 THEN SubSeq(v, 1, NumberMatchLen(v))
    ELSE SearchNumber(Tail(v))

RECURSIVE DropLeadingZeros(_)
DropLeadingZeros(ds) ==
    IF Len(ds) > 1 /\ Head(ds) = "0" THEN DropLeadingZeros(Tail(ds)) ELSE ds

\* str(int(float(num))) for a num of the form -?\d+(\.\d+)?: the integer
\* part without leading zeros, signed unless it is zero.  (Exact for the
\* numbers of the model, which are far below 2^53.)
IntOfFloatStr(num) ==
    LET neg == Head(num) = "-"
        body == IF neg THEN Tail(num) ELSE num
        whole == DropLeadingZeros(SubSeq(body, 1, DigitRun(body)))
    IN  IF whole = <<"0">> THEN whole
        ELSE IF neg THEN <<"-">> \o whole ELSE whole

\* Faulty variant of normalize_numeric: the absence path hands back the trimmed text
\* instead of None.
normalize_numeric_AbsenceAsText(val, int) ==
    IF val = None THEN None
    ELSE LET v == Lower(Strip(val))
         IN  IF v = <<>> \/ v \in ABSENCE_PHRASES THEN v
             ELSE LET m == SearchNumber(v)
                  IN  IF m = None THEN None
                      ELSE LET num == ReplaceUnit(m, ",", <<".">>)
                           IN  IF int THEN IntOfFloatStr(num) ELSE num

normalize_numeric(val, int) ==
    IF val = None THEN None
    ELSE LET v == Lower(Strip(val))
         IN  IF v = <<>> \/ v \in ABSENCE_PHRASES THEN None
             ELSE LET m == SearchNumber(v)
                  IN  IF m = None THEN None
                      ELSE LET num == ReplaceUnit(m, ",", <<".">>)
                           IN  IF int THEN IntOfFloatStr(num) ELSE num


(***************************************************************************)
(* Metafield Update Planner                                                *)
(***************************************************************************)
\* dict.get(k): the value under k, None when k is no key of d.
DictGet(d, k) == IF k \in DOMAIN d THEN d[k] ELSE None

\* Python truthiness of an Optional[str].
Truthy(x) == x # None /\ x # <<>>

\* json.dumps(rtf, separators=(",", ":")): the document as a JSON string,
\* kept as the document under a tag that sets it apart from a plain str.
JsonDumps(doc) == [json |-> doc]

\* f"vineta_{idx + 1}" for idx in range(5) and f"faq_{idx + 2}" for idx in
\* range(3).
VinetaKeys == <<"vineta_1", "vineta_2", "vineta_3", "vineta_4", "vineta_5">>

FaqKeys == <<"faq_2", "faq_3", "faq_4">>

\* mapping_numeric, in its insertion order: field, integer flag, value_type.
mapping_numeric ==
    << <<"ancho", FALSE, "string">>,
       <<"longitud", FALSE, "string">>,
       <<"alto", FALSE, "string">>,
       <<"piezas", TRUE, "integer">> >>

\* The key of details under which the parser stores a field: the field's
\* lower-cased name as a str of one word unit.
DetailKey(field) == <<field>>

\* The loops "for idx in range(n)" of generate_put_updates over the bullets
\* and over the FAQ answers; idx is 1-based here.
RECURSIVE UpdatesRichText(_, _, _, _)
UpdatesRichText(ids, keys, texts, idx) ==
    IF idx > Len(keys) THEN <<>>
    ELSE (IF idx <= Len(texts) /\ keys[idx] \in DOMAIN ids
          THEN << [id |-> ids[keys[idx]],
                   value |-> JsonDumps(markdown_to_rich_text_json(texts[idx])),
                   value_type |-> "json_string"] >>
          ELSE <<>>)
         \o UpdatesRichText(ids, keys, texts, idx + 1)

\* Faulty variant of UpdatesNumeric: the "if val is not None" test is missing.
RECURSIVE UpdatesNumericNoNoneTest(_, _, _)
UpdatesNumericNoNoneTest(ids, dets, i) ==
    IF i > Len(mapping_numeric) THEN <<>>
    ELSE LET field == mapping_numeric[i][1]
             val == normalize_numeric(DictGet(dets, DetailKey(field)),
                                      mapping_numeric[i][2])
         IN  (IF field \in DOMAIN ids
              THEN << [id |-> ids[field], value |-> val,
                       value_type |-> mapping_numeric[i][3]] >>
              ELSE <<>>)
             \o UpdatesNumericNoNoneTest(ids, dets, i + 1)

\* The loop over mapping_numeric of generate_put_updates.
RECURSIVE UpdatesNumeric(_, _, _)
UpdatesNumeric(ids, dets, i) ==
    IF i > Len(mapping_numeric) THEN <<>>
    ELSE LET field == mapping_numeric[i][1]
             val == normalize_numeric(DictGet(dets, DetailKey(field)),
                                      mapping_numeric[i][2])
         IN  (IF field \in DOMAIN ids /\ val # None
              THEN << [id |-> ids[field], value |-> val,
                       value_type |-> mapping_numeric[i][3]] >>
              ELSE <<>>)
             \o UpdatesNumeric(ids, dets, i + 1)

\* escala_val and escala_val.strip().lower() not in ABSENCE_PHRASES
EscalaPresent(escala_val) ==
    Truthy(escala_val) /\ Lower(Strip(escala_val)) \notin ABSENCE_PHRASES

UpdatesEscala(ids, dets) ==
    LET escala_val == DictGet(dets, DetailKey("escala"))
    IN  IF "escala" \in DOMAIN ids /\ EscalaPresent(escala_val)
        THEN << [id |-> ids["escala"], value |-> Strip(escala_val),
                 value_type |-> "string"] >>
        ELSE <<>>

UpdatesVideo(ids, p) ==
    (IF "sec5_title" \in DOMAIN ids /\ Truthy(p.video_title)
     THEN << [id |-> ids["sec5_title"], value |-> Strip(p.video_title),
              value_type |-> "string"] >>
     ELSE <<>>)
    \o
    (IF "sec5_body" \in DOMAIN ids /\ Truthy(p.video_body)
     THEN << [id |-> ids["sec5_body"],
              value |-> JsonDumps(
                  markdown_to_rich_text_json_paragraphs(p.video_body, TRUE)),
              value_type |-> "json_string"] >>
     ELSE <<>>)

generate_put_updates(ids, p) ==
    UpdatesRichText(ids, VinetaKeys, p.bullets, 1)
    \o UpdatesRichText(ids, FaqKeys, p.faq_answers, 1)
    \o UpdatesNumeric(ids, p.details, 1)
    \o UpdatesEscala(ids, p.details)
    \o UpdatesVideo(ids, p)

MetafieldInput(gid, key, type, val) ==
    [ownerId |-> gid, namespace |-> "custom", key |-> key, type |-> type,
     value |-> val]

\* Faulty variant of InputsRichText: the "key not in ids_map" test is missing.
RECURSIVE InputsRichTextAlways(_, _, _, _, _)
InputsRichTextAlways(gid, ids, keys, texts, idx) ==
    IF idx > Len(keys) THEN <<>>
    ELSE (IF idx <= Len(texts)
          THEN << MetafieldInput(gid, keys[idx], "rich_text_field",
                      JsonDumps(markdown_to_rich_text_json(texts[idx]))) >>
          ELSE <<>>)
         \o InputsRichTextAlways(gid, ids, keys, texts, idx + 1)

\* The loops over the bullets and over the FAQ answers of
\* build_missing_metafields_inputs; idx is 1-based here.
RECURSIVE InputsRichText(_, _, _, _, _)
InputsRichText(gid, ids, keys, texts, idx) ==
    IF idx > Len(keys) THEN <<>>
    ELSE (IF keys[idx] \notin DOMAIN ids /\ idx <= Len(texts)
          THEN << MetafieldInput(gid, keys[idx], "rich_text_field",
                      JsonDumps(markdown_to_rich_text_json(texts[idx]))) >>
          ELSE <<>>)
         \o InputsRichText(gid, ids, keys, texts, idx + 1)

\* One of the four "if <field> not in ids_map" blocks of the details.
InputNumeric(gid, ids, dets, field, int, type) ==
    LET v == normalize_numeric(DictGet(dets, DetailKey(field)), int)
    IN  IF field \notin DOMAIN ids /\ v # None
        THEN <<MetafieldInput(gid, field, type, v)>>
        ELSE <<>>

InputsEscala(gid, ids, dets) ==
    LET escala_val == DictGet(dets, DetailKey("escala"))
    IN  IF "escala" \notin DOMAIN ids /\ EscalaPresent(escala_val)
        THEN <<MetafieldInput(gid, "escala", "single_line_text_field",
                              Strip(escala_val))>>
        ELSE <<>>

InputsVideo(gid, ids, p) ==
    (IF "sec5_title" \notin DOMAIN ids /\ Truthy(p.video_title)
     THEN <<MetafieldInput(gid, "sec5_title", "single_line_text_field",
                           Strip(p.video_title))>>
     ELSE <<>>)
    \o
    (IF "sec5_body" \notin DOMAIN ids /\ Truthy(p.video_body)
     THEN <<MetafieldInput(gid, "sec5_body", "rich_text_field",
                JsonDumps(markdown_to_rich_text_json_paragraphs(
                    p.video_body, TRUE)))>>
     ELSE <<>>)

build_missing_metafields_inputs(gid, ids, p) ==
    InputsRichText(gid, ids, VinetaKeys, p.bullets, 1)
    \o InputsRichText(gid, ids, FaqKeys, p.faq_answers, 1)
    \o InputNumeric(gid, ids, p.details, "ancho", FALSE, "number_decimal")
    \o InputNumeric(gid, ids, p.details, "longitud", FALSE, "number_decimal")
    \o InputNumeric(gid, ids, p.details, "alto", FALSE, "number_decimal")
    \o InputNumeric(gid, ids, p.details, "piezas", TRUE, "number_integer")
    \o InputsEscala(gid, ids, p.details)
    \o InputsVideo(gid, ids, p)


(***************************************************************************)
(* Specification SpecEncoder: the two encoder functions applied to texts   *)
(* drawn from bounded sets.                                                *)
(***************************************************************************)
EncoderUnits == {"a", " ", "*", ".", "\n"}

\* Every text of at most MaxTextLen units.
ShortTexts == UNION {[1..n -> EncoderUnits] : n \in 0..MaxTextLen}

SentenceForms == {<<"a", ".">>, <<"*", "*", "a", "?">>, <<"b", "*", "*", "!">>}

SentenceSeparators == {<<" ">>, <<"\n">>, <<" ", " ">>}

\* Single-paragraph texts of 2..MaxSentences sentences, one separator each.
SentenceTexts ==
    UNION {{Join(ss, sep) : ss \in [1..n -> SentenceForms]} :
             <<n, sep>> \in (2..MaxSentences) \X SentenceSeparators}

\* The text of the segmentation example: **a** b **c**
BoldExample ==
    <<"*", "*", "a", "*", "*", " ", "b", " ", "*", "*", "c", "*", "*">>

EncoderTexts == ShortTexts \cup SentenceTexts \cup {BoldExample}

InitEncoder ==
    /\ pc = "encoder"
    /\ text \in EncoderTexts
    /\ enforce_two \in BOOLEAN
    /\ rtf = None
    /\ NormalizerIdle /\ MarkdownIdle /\ PlannerIdle /\ HtmlIdle /\ GatewayIdle
    /\ ScraperIdle

\* markdown_to_rich_text_json(text).  Its only callers pass a bullet or a
\* FAQ answer, which the parser never leaves blank (source lines 113-114 and
\* 141-143), so the call is made on non-blank text.
EncodeSingle ==
    /\ pc = "encoder"
    /\ ~enforce_two
    /\ NonBlank(text)
    /\ rtf' = markdown_to_rich_text_json(text)
    /\ pc' = "single"
    /\ UNCHANGED <<text, enforce_two>>
    /\ UNCHANGED <<scraperVars, normalizerVars, markdownVars, plannerVars, htmlVars, gatewayVars>>

\* markdown_to_rich_text_json_paragraphs(text, enforce_two)
EncodeParagraphs ==
    /\ pc = "encoder"
    /\ rtf' = markdown_to_rich_text_json_paragraphs(text, enforce_two)
    /\ pc' = "paragraphs"
    /\ UNCHANGED <<text, enforce_two>>
    /\ UNCHANGED <<scraperVars, normalizerVars, markdownVars, plannerVars, htmlVars, gatewayVars>>

NextEncoder == EncodeSingle \/ EncodeParagraphs

SpecEncoder == InitEncoder /\ [][NextEncoder]_vars

(***************************************************************************)
(* Claims on the rich-text encoder (SpecEncoder).                          *)
(*                                                                         *)
(* The markers of a line are described here by position, not by the scan   *)
(* of the encoder: in a maximal run of "*" the markers are the pairs that  *)
(* start at the run's 1st, 3rd, 5th ... unit.                              *)
(***************************************************************************)
RunStart(line, i) ==
    CHOOSE r \in 1..i :
        /\ \A k \in r..i : line[k] = "*"
        /\ r = 1 \/ line[r - 1] # "*"

MarkerStarts(line) ==
    {i \in 1..(Len(line) - 1) :
        /\ line[i] = "*"
        /\ line[i + 1] = "*"
        /\ (i - RunStart(line, i)) % 2 = 0}

InsideMarker(line) == MarkerStarts(line) \cup {m + 1 : m \in MarkerStarts(line)}

SpanStarts(line) ==
    {i \in 1..Len(line) \ InsideMarker(line) :
        i = 1 \/ (i - 1) \in InsideMarker(line)}

SpanEnd(line, lo) ==
    CHOOSE hi \in lo..Len(line) :
        /\ \A k \in lo..hi : k \notin InsideMarker(line)
        /\ hi = Len(line) \/ (hi + 1) \in InsideMarker(line)

RECURSIVE Ascending(_)
Ascending(S) ==
    IF S = {} THEN <<>>
    ELSE LET m == CHOOSE x \in S : \A y \in S : x <= y
         IN  <<m>> \o Ascending(S \ {m})

\* The maximal marker-free stretches of a line, left to right, each with the
\* parity of the number of markers before it.
ExpectedSpans(line) ==
    LET starts == Ascending(SpanStarts(line))
    IN  [j \in 1..Len(starts) |->
            [value |-> SubSeq(line, starts[j], SpanEnd(line, starts[j])),
             bold  |-> Cardinality({m \in MarkerStarts(line) : m < starts[j]})
                          % 2 = 1]]

\* The line of text from which each paragraph of rtf was built.
CollapsedTrimmed(t) ==
    Strip(ReplaceUnit(ReplaceUnit(t, "\r", <<>>), "\n", <<" ">>))

SourceLines ==
    IF pc = "single" THEN <<CollapsedTrimmed(text)>>
    ELSE LET ps == Paras(text, enforce_two)
         IN  [i \in 1..Len(ps) |-> ReplaceUnit(ps[i], "\n", <<" ">>)]

IsBold(node) == "bold" \in DOMAIN node

SpansAgree(para, line) ==
    LET want == ExpectedSpans(line)
    IN  /\ Len(para.children) = Len(want)
        /\ \A j \in 1..Len(want) :
              /\ para.children[j].value = want[j].value
              /\ IsBold(para.children[j]) <=> want[j].bold
              /\ IsBold(para.children[j]) => para.children[j].bold = TRUE

BoldExampleSpans ==
    << [type |-> "text", value |-> <<"a">>, bold |-> TRUE],
       [type |-> "text", value |-> <<" ", "b", " ">>],
       [type |-> "text", value |-> <<"c">>, bold |-> TRUE] >>

RECURSIVE ConcatValues(_)
ConcatValues(nodes) ==
    IF nodes = <<>> THEN <<>>
    ELSE Head(nodes).value \o ConcatValues(Tail(nodes))

\* The units of a line that lie outside every marker, in order.
OutsideMarkers(line) ==
    LET keep == Ascending(1..Len(line) \ InsideMarker(line))
    IN  [j \in 1..Len(keep) |-> line[keep[j]]]

\* C8: the values of the spans of a paragraph, concatenated in order, are
\* the paragraph's line (newlines replaced, trimmed) with every ** marker
\* removed; no span is empty except the single empty span of the empty
\* document.
C8_SpanPreservation ==
    /\ pc \in {"single", "paragraphs"} /\ SourceLines # <<>> =>
          /\ Len(rtf.children) = Len(SourceLines)
          /\ \A i \in 1..Len(SourceLines) :
                /\ ConcatValues(rtf.children[i].children)
                      = OutsideMarkers(SourceLines[i])
                /\ \A j \in 1..Len(rtf.children[i].children) :
                      rtf.children[i].children[j].value # <<>>
    /\ pc = "paragraphs" /\ SourceLines = <<>> =>
          /\ ~NonBlank(text)
          /\ Len(rtf.children) = 1
          /\ ConcatValues(rtf.children[1].children) = <<>>

C8_Witness ==
    /\ pc = "paragraphs"
    /\ Len(rtf.children) = 2
    /\ Len(rtf.children[1].children) = 2
    /\ MarkerStarts(SourceLines[1]) # {}

UnitForms(u) ==
    {x \in {"No", "NO", "Disponible", "DISPONIBLE", "Sin", "Dato", "DATO"} :
        LowerUnit(x) = u} \cup {u}

\* Every way of writing phrase p in the upper- and lower-case units.
RECURSIVE CaseVariants(_)
CaseVariants(p) ==
    IF p = <<>> THEN {<<>>}
    ELSE {<<x>> \o r : x \in UnitForms(Head(p)), r \in CaseVariants(Tail(p))}

Paddings == {<<>>, <<" ">>, <<"\n">>, <<" ", "\t">>}

AbsenceValues ==
    {pre \o s \o post :
        pre \in Paddings, post \in Paddings,
        s \in UNION {CaseVariants(p) : p \in ABSENCE_PHRASES}}

ValueUnits == {"1", "0", ".", ",", "-", " ", "cm"}

ShortValues == UNION {[1..n -> ValueUnits] : n \in 0..MaxValueLen}

\* Values that hold an absence phrase without being one, and the values of
\* the normalisation examples.
OtherValues ==
    { <<"no", " ", "disponible", " ", "3">>,
      <<"no">>, <<"sin", "dato">>, <<"no", " ", " ", "disponible">>,
      <<"1", "2", ".", "5", " ", "cm">>, <<"8", " ", "piezas">>,
      <<"1", "2", " ", "cm">>, <<"1", "5", "0", " ", "pzas">> }

\* Values whose numeric token has a comma, a sign, leading zeros or a
\* fraction that rounding and truncation treat differently.
NumericValues ==
    { <<"7", ",", "5">>, <<"-", "3", ".", "9", " ", "cm">>,
      <<"0", "0", "7", " ", "piezas">>, <<"Ancho", " ", "-", "0", ",", "9">>,
      <<"1", ",", "2", "3", "4", ".", "5">>, <<"2", "-", "3", " ", "piezas">>,
      <<"Piezas">>, <<"-", " ", ".", "5">> }

NormalizerValues ==
    {None} \cup AbsenceValues \cup ShortValues \cup OtherValues
        \cup NumericValues

InitNormalizer ==
    /\ pc = "normalizer"
    /\ value \in NormalizerValues
    /\ integer \in BOOLEAN
    /\ normalized = None
    /\ EncoderIdle /\ MarkdownIdle /\ PlannerIdle /\ HtmlIdle /\ GatewayIdle
    /\ ScraperIdle

\* normalize_numeric(value, integer)
Normalize ==
    /\ pc = "normalizer"
    /\ normalized' = normalize_numeric(value, integer)
    /\ pc' = "normalized"
    /\ UNCHANGED <<value, integer>>
    /\ UNCHANGED <<scraperVars, encoderVars, markdownVars, plannerVars, htmlVars, gatewayVars>>

NextNormalizer == Normalize

SpecNormalizer == InitNormalizer /\ [][NextNormalizer]_vars

(***************************************************************************)
(* Claims on the field normalizer (SpecNormalizer).                        *)
(***************************************************************************)
SameIgnoringCase(a, b) ==
    /\ Len(a) = Len(b)
    /\ \A i \in 1..Len(a) : LowerUnit(a[i]) = LowerUnit(b[i])

\* The value is None, blank, or - trimmed, ignoring case - an absence phrase.
IsAbsent(v) ==
    \/ v = None
    \/ /\ v # None
       /\ \/ Strip(v) = <<>>
          \/ \E p \in ABSENCE_PHRASES : SameIgnoringCase(Strip(v), p)

\* C10: normalize_numeric returns None for a None value, for a value that is
\* blank after trimming and for a value that, trimmed and compared without
\* regard to case, is one of the absence phrases, in integer and in decimal
\* mode alike.
C10_AbsenceRule ==
    pc = "normalized" /\ IsAbsent(value) => normalized = None

C10_Witness ==
    /\ pc = "normalized"
    /\ value = <<"No", " ", "disponible">>
    /\ integer
    /\ normalized = None

\* The position of the first digit of v, 0 when v has none.
FirstDigit(v) ==
    IF \A i \in 1..Len(v) : ~IsDigit(v[i]) THEN 0
    ELSE CHOOSE i \in 1..Len(v) :
            IsDigit(v[i]) /\ \A j \in 1..(i - 1) : ~IsDigit(v[j])

\* The position after the digits that start at position i of v.
DigitsEnd(v, i) ==
    CHOOSE e \in i..(Len(v) + 1) :
        /\ \A j \in i..(e - 1) : IsDigit(v[j])
        /\ e = Len(v) + 1 \/ ~IsDigit(v[e])

\* The first numeric token of v: its sign, the digits before and the digits
\* after the decimal separator.
FirstToken(v) ==
    LET s == FirstDigit(v)
        e == DigitsEnd(v, s)
        hasFrac == /\ e + 1 <= Len(v)
                   /\ v[e] \in {".", ","}
                   /\ IsDigit(v[e + 1])
    IN  [negative |-> s > 1 /\ v[s - 1] = "-",
         whole |-> SubSeq(v, s, e - 1),
         frac |-> IF hasFrac THEN SubSeq(v, e + 1, DigitsEnd(v, e + 1) - 1)
                  ELSE <<>>]

DigitSeq == <<"0", "1", "2", "3", "4", "5", "6", "7", "8", "9">>

DigitValue(c) == CHOOSE n \in 0..9 : DigitSeq[n + 1] = c

RECURSIVE NatOfDigits(_)
NatOfDigits(ds) ==
    IF ds = <<>> THEN 0
    ELSE 10 * NatOfDigits(SubSeq(ds, 1, Len(ds) - 1)) + DigitValue(ds[Len(ds)])

RECURSIVE DigitsOfNat(_)
DigitsOfNat(n) ==
    IF n < 10 THEN <<DigitSeq[n + 1]>>
    ELSE DigitsOfNat(n \div 10) \o <<DigitSeq[(n % 10) + 1]>>

\* The token written with a dot as decimal separator.
TokenDecimal(t) ==
    (IF t.negative THEN <<"-">> ELSE <<>>) \o t.whole
        \o (IF t.frac = <<>> THEN <<>> ELSE <<".">> \o t.frac)

\* The integer part of the token as an integer string.
TokenInteger(t) ==
    LET n == NatOfDigits(t.whole)
    IN  (IF t.negative /\ n > 0 THEN <<"-">> ELSE <<>>) \o DigitsOfNat(n)

GeneratePutUpdates ==
    /\ pc \in {"planner", "inputs"}
    /\ updates' = generate_put_updates(ids_map, parsed)
    /\ pc' = IF pc = "planner" THEN "updates" ELSE "planned"
    /\ UNCHANGED <<product_gid, ids_map, inputs>>
    /\ UNCHANGED <<scraperVars, encoderVars, normalizerVars, markdownVars, htmlVars, gatewayVars>>

\* missing_inputs = build_missing_metafields_inputs(product_gid, ids_map, parsed)
BuildMissingMetafieldsInputs ==
    /\ pc \in {"planner", "updates"}
    /\ inputs' = build_missing_metafields_inputs(product_gid, ids_map, parsed)
    /\ pc' = IF pc = "planner" THEN "inputs" ELSE "planned"
    /\ UNCHANGED <<product_gid, ids_map, updates>>
    /\ UNCHANGED <<scraperVars, encoderVars, normalizerVars, markdownVars, htmlVars, gatewayVars>>

(***************************************************************************)
(* Specification SpecPlanner: the planner applied to identifier maps and   *)
(* ParsedContents drawn from bounded sets.                                 *)
(***************************************************************************)
DigitUnit(i) == <<"0", "1", "2", "3", "4", "5", "6", "7", "8", "9">>[(i % 10) + 1]

BulletText(i) ==
    IF i % 2 = 1 THEN <<"v", DigitUnit(i)>>
    ELSE <<"*", "*", "v", "*", "*", " ", DigitUnit(i)>>

BulletLists == {[i \in 1..n |-> BulletText(i)] : n \in 0..MaxBullets}

FaqLists ==
    {[i \in 1..n |-> <<"r", DigitUnit(i), ".">>] : n \in 0..MaxFaqAnswers}

DetailFields == {"ancho", "longitud", "alto", "piezas", "escala"}

DetailValueSamples ==
    { <<"1", "2", " ", "cm">>, <<"7", ",", "5">>, <<"-", "3", ".", "9">>,
      <<"no", " ", "disponible">>, <<"Sin", " ", "Dato">>,
      <<"cm">>, <<"1", ":", "5", "0">> }

DetailsSamples ==
    {<<>>}
    \cup {[k \in {DetailKey(f) : f \in DetailFields} |-> v] :
            v \in DetailValueSamples}
    \cup {[k \in {DetailKey(f)} |-> <<"1", "5", "0", " ", "pzas">>] :
            f \in DetailFields}
    \cup { [k \in {DetailKey(f) : f \in {"ancho", "alto", "piezas", "peso"}}
              |-> IF k = <<"ancho">> THEN <<"1", "2", " ", "cm">>
                  ELSE IF k = <<"alto">> THEN <<"no", " ", "disponible">>
                  ELSE <<"8">>] }

VideoSamples ==
    { <<None, None>>, <<<<>>, <<>>>>, <<<<"T">>, None>>,
      <<None, <<"a", ".", " ", "b", ".">>>>,
      <<<<"T", " ", "x">>, <<"a", ".", "\n", "b", ".", " ", "c", ".">>>> }

ParsedContents ==
    {[bullets |-> b, faq_answers |-> f, details |-> d,
      video_title |-> v[1], video_body |-> v[2]] :
        b \in BulletLists, f \in FaqLists, d \in DetailsSamples,
        v \in VideoSamples}

\* The keys of the schema in the order of the planner.
Schema ==
    VinetaKeys \o FaqKeys
    \o <<"ancho", "longitud", "alto", "piezas", "escala",
         "sec5_title", "sec5_body">>

SchemaKeys == {Schema[i] : i \in 1..Len(Schema)}

\* Remote identifiers: one per key, all different.
IdOf(key) ==
    IF key \in SchemaKeys
    THEN 9000 + (CHOOSE i \in 1..Len(Schema) : Schema[i] = key)
    ELSE 9999

IdsKeySets ==
    { {}, SchemaKeys, SchemaKeys \cup {"otro"},
      {"vineta_1", "vineta_3", "vineta_5", "faq_3", "ancho", "piezas",
       "sec5_title"},
      {"vineta_2", "vineta_4", "faq_2", "faq_4", "longitud", "alto", "escala",
       "sec5_body"},
      {"ancho", "longitud", "alto", "piezas"},
      SchemaKeys \ {"ancho", "longitud", "alto", "piezas"},
      {"escala", "sec5_title", "sec5_body"} }

IdsMaps == {[k \in K |-> IdOf(k)] : K \in IdsKeySets}

ProductGids == {"gid://shopify/Product/1"}

InitPlanner ==
    /\ pc = "planner"
    /\ product_gid \in ProductGids
    /\ ids_map \in IdsMaps
    /\ parsed \in ParsedContents
    /\ updates = None /\ inputs = None
    /\ content_md = None /\ bullets = <<>> /\ faq_answers = <<>>
    /\ details = <<>> /\ sec4_lines = <<>> /\ video_title = None
    /\ video_body_lines = <<>> /\ first_bullet_processed = FALSE
    /\ EncoderIdle /\ NormalizerIdle /\ HtmlIdle /\ GatewayIdle
    /\ ScraperIdle

NextPlanner == GeneratePutUpdates \/ BuildMissingMetafieldsInputs

SpecPlanner == InitPlanner /\ [][NextPlanner]_vars

(***************************************************************************)
(* Claims on the planner (SpecPlanner).                                    *)
(*                                                                         *)
(* The computed value of a schema field is written here from the schema    *)
(* table: source, encoding, and when the value is null.                    *)
(***************************************************************************)
IndexIn(keys, f) == CHOOSE i \in 1..Len(keys) : keys[i] = f

InSeq(keys, f) == \E i \in 1..Len(keys) : keys[i] = f

\* The raw source of field f in ParsedContent p, None when there is none.
FieldSource(f, p) ==
    IF InSeq(VinetaKeys, f)
    THEN (IF IndexIn(VinetaKeys, f) <= Len(p.bullets)
          THEN p.bullets[IndexIn(VinetaKeys, f)] ELSE None)
    ELSE IF InSeq(FaqKeys, f)
    THEN (IF IndexIn(FaqKeys, f) <= Len(p.faq_answers)
          THEN p.faq_answers[IndexIn(FaqKeys, f)] ELSE None)
    ELSE IF f = "sec5_title" THEN p.video_title
    ELSE IF f = "sec5_body" THEN p.video_body
    ELSE DictGet(p.details, <<f>>)

\* Field f has no value to write.
IsNullField(f, p) ==
    LET src == FieldSource(f, p)
    IN  IF InSeq(VinetaKeys, f) \/ InSeq(FaqKeys, f) THEN src = None
        ELSE IF f \in {"ancho", "longitud", "alto"}
        THEN normalize_numeric(src, FALSE) = None
        ELSE IF f = "piezas" THEN normalize_numeric(src, TRUE) = None
        ELSE IF f = "escala"
        THEN src = None \/ src = <<>>
             \/ \E a \in ABSENCE_PHRASES : SameIgnoringCase(Strip(src), a)
        ELSE src = None \/ src = <<>>

\* The value to write for a field that is not null.
FieldValue(f, p) ==
    LET src == FieldSource(f, p)
    IN  IF InSeq(VinetaKeys, f) \/ InSeq(FaqKeys, f)
        THEN JsonDumps(markdown_to_rich_text_json(src))
        ELSE IF f \in {"ancho", "longitud", "alto"}
        THEN normalize_numeric(src, FALSE)
        ELSE IF f = "piezas" THEN normalize_numeric(src, TRUE)
        ELSE IF f = "sec5_body"
        THEN JsonDumps(markdown_to_rich_text_json_paragraphs(src, TRUE))
        ELSE Strip(src)

\* The positions of the instructions for field f in each list.  An update
\* instruction names its field by the identifier the map gives it.
UpdatesFor(f) ==
    IF f \in DOMAIN ids_map
    THEN {i \in 1..Len(updates) : updates[i].id = ids_map[f]}
    ELSE {}

InputsFor(f) == {i \in 1..Len(inputs) : inputs[i].key = f}

\* C1: a schema field whose computed value is null has no instruction, in
\* the update list or in the creation list, whatever the identifier map.
C1_PlannerOmission ==
    pc = "planned" =>
        \A f \in SchemaKeys :
            IsNullField(f, parsed) => UpdatesFor(f) = {} /\ InputsFor(f) = {}

C1_Witness ==
    /\ pc = "planned"
    /\ IsNullField("alto", parsed) /\ "alto" \in DOMAIN ids_map
    /\ IsNullField("vineta_5", parsed) /\ "vineta_5" \notin DOMAIN ids_map
    /\ ~IsNullField("ancho", parsed)
    /\ Len(updates) > 0 /\ Len(inputs) > 0

\* C2: a schema field whose computed value is not null has exactly one
\* instruction in total: an update carrying the map's identifier and the
\* value when its key is in the map, a creation carrying the owner
\* reference, the key and the same value when it is not; the two lists hold
\* nothing else, so no key is in both lists or twice in one.
C2_UpdateCreateRouting ==
    pc = "planned" =>
        /\ \A f \in SchemaKeys :
              ~IsNullField(f, parsed) =>
                 IF f \in DOMAIN ids_map
                 THEN /\ Cardinality(UpdatesFor(f)) = 1
                      /\ InputsFor(f) = {}
                      /\ \A i \in UpdatesFor(f) :
                            updates[i].value = FieldValue(f, parsed)
                 ELSE /\ Cardinality(InputsFor(f)) = 1
                      /\ UpdatesFor(f) = {}
                      /\ \A i \in InputsFor(f) :
                            /\ inputs[i].ownerId = product_gid
                            /\ inputs[i].value = FieldValue(f, parsed)
        /\ Len(updates) + Len(inputs)
              = Cardinality({f \in SchemaKeys : ~IsNullField(f, parsed)})

C2_Witness ==
    /\ pc = "planned"
    /\ ~IsNullField("vineta_1", parsed) /\ "vineta_1" \in DOMAIN ids_map
    /\ ~IsNullField("vineta_2", parsed) /\ "vineta_2" \notin DOMAIN ids_map
    /\ ~IsNullField("piezas", parsed) /\ "piezas" \in DOMAIN ids_map
    /\ ~IsNullField("escala", parsed) /\ "escala" \notin DOMAIN ids_map
    /\ Len(updates) > 1 /\ Len(inputs) > 1

(***************************************************************************)
(* HTML section parser (convert_analisis_copywriting_to_json.py)           *)
(***************************************************************************)
\* "w in low" for a keyword w that the inputs hold only as a whole unit.
Contains(low, w) == \E i \in 1..Len(low) : low[i] = w

\* Length of the match of <br\s*/?> (IGNORECASE) at the head of s, 0 if
\* there is none.
BrMatchLen(s) ==
    IF Len(s) >= 3 /\ s[1] = "<" /\ LowerUnit(s[2]) = "br"
    THEN LET rest == From(s, 3)
             spaces == Len(rest) - Len(LStrip(rest))
             after == From(rest, spaces + 1)
             slash == IF after # <<>> /\ Head(after) = "/" THEN 1 ELSE 0
             close == From(after, slash + 1)
         IN IF close # <<>> /\ Head(close) = ">"
            THEN 2 + spaces + slash + 1 ELSE 0
    ELSE 0

\* re.sub(r"<br\s*/?>", "\n", html, flags=re.IGNORECASE)
RECURSIVE BrToNewline(_)
BrToNewline(s) ==
    IF s = <<>> THEN <<>>
    ELSE IF BrMatchLen(s) > 0
         THEN <<"\n">> \o BrToNewline(From(s, BrMatchLen(s) + 1))
         ELSE <<Head(s)>> \o BrToNewline(Tail(s))

\* Length of the match of <[^>]+> at the head of s, 0 if there is none.
TagMatchLen(s) ==
    IF s # <<>> /\ Head(s) = "<" /\ \E j \in 2..Len(s) : s[j] = ">"
    THEN LET j == CHOOSE k \in 2..Len(s) :
                      s[k] = ">" /\ \A m \in 2..(k - 1) : s[m] # ">"
         IN IF j >= 3 THEN j ELSE 0
    ELSE 0

\* re.sub(r"<[^>]+>", "", html)
RECURSIVE RemoveTags(_)
RemoveTags(s) ==
    IF s = <<>> THEN <<>>
    ELSE IF TagMatchLen(s) > 0
         THEN RemoveTags(From(s, TagMatchLen(s) + 1))
         ELSE <<Head(s)>> \o RemoveTags(Tail(s))

strip_tags(html) == RemoveTags(BrToNewline(html))

\* str.splitlines(), up to the empty lines that parse_content drops.
RECURSIVE SplitLinesFrom(_, _)
SplitLinesFrom(s, acc) ==
    IF s = <<>> THEN <<acc>>
    ELSE IF Head(s) = "\n" THEN <<acc>> \o SplitLinesFrom(Tail(s), <<>>)
    ELSE SplitLinesFrom(Tail(s), Append(acc, Head(s)))

\* lines = [l.strip() for l in text.splitlines() if l.strip()]
StrippedLines(t) == KeepNonBlank(MapStrip(SplitLinesFrom(t, <<>>)))

HeadingPrefix == <<"#", "#", "#", " ">>
BulletPrefix == <<"-", " ">>

\* Faulty variant of HeadingSection: the keywords are looked up in the
\* line as written, not in its lower-case form.
HeadingSectionAsWritten(line) ==
    IF Contains(line, "viñetas") THEN <<"viñetas">>
    ELSE IF Contains(line, "faq") THEN <<"faq">>
    ELSE IF Contains(line, "detalles") THEN <<"detalles">>
    ELSE IF Contains(line, "video") THEN <<"video">>
    ELSE None

\* The section a '### ' heading names, None when it names none.
HeadingSection(line) ==
    LET low == Lower(line)
    IN IF Contains(low, "viñetas") THEN <<"viñetas">>
       ELSE IF Contains(low, "faq") THEN <<"faq">>
       ELSE IF Contains(low, "detalles") THEN <<"detalles">>
       ELSE IF Contains(low, "video") THEN <<"video">>
       ELSE None

\* re.match(r"^(.+\?)\s*(.+)$", item): the end of group 1, found as the
\* backtracking search finds it (longest first), 0 when nothing matches.
RECURSIVE QuestionEndFrom(_, _)
QuestionEndFrom(item, k) ==
    IF k < 2 THEN 0
    ELSE IF item[k] = "?" /\ k < Len(item) THEN k
    ELSE QuestionEndFrom(item, k - 1)

\* Group 2 of a pattern that ends in \s*(.+)$, for the text left after the
\* preceding groups: \s* gives back one unit when the text is all blank.
LastGroup(rest) ==
    IF LStrip(rest) = <<>> THEN <<rest[Len(rest)]>> ELSE LStrip(rest)

\* The FAQ entry of the Markdown-style parser, which drops the question.
FaqEntryQuestionDropped(item) ==
    LET k == QuestionEndFrom(item, Len(item))
    IN IF k > 0
       THEN [pregunta |-> None,
             respuesta |-> Strip(LastGroup(From(item, k + 1)))]
       ELSE [pregunta |-> None, respuesta |-> item]

\* The entry appended to data["faq"] for one item.
FaqEntry(item) ==
    LET k == QuestionEndFrom(item, Len(item))
    IN IF k > 0
       THEN [pregunta |-> Strip(SubSeq(item, 1, k)),
             respuesta |-> Strip(LastGroup(From(item, k + 1)))]
       ELSE [pregunta |-> None, respuesta |-> item]

\* re.match(r"^([^:]+):\s*(.+)$", item): the position of the colon that
\* ends group 1, 0 when nothing matches.
KeyValueColon(item) ==
    IF \E i \in 1..Len(item) : item[i] = ":"
    THEN LET i == CHOOSE k \in 1..Len(item) :
                      item[k] = ":" /\ \A m \in 1..(k - 1) : item[m] # ":"
         IN IF i >= 2 /\ i < Len(item) THEN i ELSE 0
    ELSE 0

KeyOf(item) == Strip(SubSeq(item, 1, KeyValueColon(item) - 1))
ValOf(item) == Strip(LastGroup(From(item, KeyValueColon(item) + 1)))

\* A dict value: a str, or the list kept under the overflow key.
StrValue(v) == [list |-> FALSE, v |-> v]
ListValue(v) == [list |-> TRUE, v |-> v]

OtrosKey == <<"__otros__">>

\* d[k] = v
DictSet(d, k, v) == [x \in DOMAIN d \cup {k} |-> IF x = k THEN v ELSE d[x]]

\* d.setdefault("__otros__", []).append(item) raises AttributeError when
\* the key already holds a str.
OtrosRaises(d) == OtrosKey \in DOMAIN d /\ ~d[OtrosKey].list

OtrosAppend(d, item) ==
    DictSet(d, OtrosKey,
            ListValue(IF OtrosKey \in DOMAIN d
                      THEN Append(d[OtrosKey].v, item) ELSE <<item>>))

EmptyDict == [x \in {} |-> None]

\* data as parse_content creates it.
EmptyData ==
    [vinetas |-> <<>>, faq |-> <<>>, detalles_tecnicos |-> EmptyDict,
     video_section |-> EmptyDict]

\* data after the item of one bulleted line has been processed in section
\* sec (the branches of lines 75-108 that do not raise).
ItemData(sec, d, item) ==
    IF sec = <<"viñetas">>
    THEN [d EXCEPT !.vinetas = Append(@, item)]
    ELSE IF sec = <<"faq">>
    THEN [d EXCEPT !.faq = Append(@, FaqEntry(item))]
    ELSE IF sec = <<"detalles">>
    THEN IF KeyValueColon(item) > 0
         THEN [d EXCEPT !.detalles_tecnicos =
                            DictSet(@, KeyOf(item), StrValue(ValOf(item)))]
         ELSE [d EXCEPT !.detalles_tecnicos = OtrosAppend(@, item)]
    ELSE IF sec = <<"video">>
    THEN IF KeyValueColon(item) > 0
         THEN [d EXCEPT !.video_section =
                            DictSet(@, Lower(KeyOf(item)), StrValue(ValOf(item)))]
         ELSE [d EXCEPT !.video_section = OtrosAppend(@, item)]
    ELSE d

\* The item of one bulleted line makes the append to the overflow list
\* raise.
ItemRaises(sec, d, item) ==
    /\ KeyValueColon(item) = 0
    /\ \/ sec = <<"detalles">> /\ OtrosRaises(d.detalles_tecnicos)
       \/ sec = <<"video">> /\ OtrosRaises(d.video_section)

\* text = strip_tags(content_html); lines = [...]; data = {...}; section = None
StripAndSplit ==
    /\ pc = "html_start"
    /\ html_lines' = StrippedLines(strip_tags(content_html))
    /\ data' = EmptyData
    /\ section' = None
    /\ pc' = "html"
    /\ UNCHANGED content_html
    /\ UNCHANGED <<scraperVars, encoderVars, normalizerVars, markdownVars, plannerVars, gatewayVars>>

\* The body of "for line in lines" for one line: the section and the data
\* it leaves, or the exception it raises.
LineStep(line, sec, d) ==
    LET item == Strip(From(line, 3))
    IN IF StartsWith(line, HeadingPrefix) /\ HeadingSection(line) # None
       THEN [raised |-> FALSE, section |-> HeadingSection(line), data |-> d]
       ELSE IF StartsWith(line, BulletPrefix)
       THEN IF ItemRaises(sec, d, item)
            THEN [raised |-> TRUE, section |-> sec, data |-> d]
            ELSE [raised |-> FALSE, section |-> sec,
                  data |-> ItemData(sec, d, item)]
       ELSE [raised |-> FALSE, section |-> sec, data |-> d]

\* One iteration of "for line in lines".
ParseContentLine ==
    /\ pc = "html"
    /\ html_lines # <<>>
    /\ LET r == LineStep(Head(html_lines), section, data)
       IN /\ section' = r.section
          /\ data' = r.data
          /\ pc' = IF r.raised THEN "html_raised" ELSE pc
          /\ html_lines' = IF r.raised THEN html_lines ELSE Tail(html_lines)
    /\ UNCHANGED content_html
    /\ UNCHANGED <<scraperVars, encoderVars, normalizerVars, markdownVars, plannerVars, gatewayVars>>

\* return data
ParseContentReturn ==
    /\ pc = "html"
    /\ html_lines = <<>>
    /\ pc' = "html_done"
    /\ UNCHANGED htmlVars
    /\ UNCHANGED <<scraperVars, encoderVars, normalizerVars, markdownVars, plannerVars, gatewayVars>>

(***************************************************************************)
(* Specification SpecHtml: parse_content applied to content blocks of at   *)
(* most MaxHtmlLines source lines.                                         *)
(***************************************************************************)
\* Most source lines in a content block.
MaxHtmlLines == 3

Heading(units) == HeadingPrefix \o units

HtmlHeadings ==
    { Heading(<<"1", ".", " ", "Viñetas">>),
      Heading(<<"2", ".", " ", "FAQ">>),
      Heading(<<"3", ".", " ", "Detalles">>),
      Heading(<<"4", ".", " ", "Video">>),
      Heading(<<"Otra">>),
      Heading(<<"FAQ", " ", "de", " ", "video">>) }

\* Items as they follow "- " on a line: question forms, key: value forms,
\* a key without value and plain text.
HtmlItems ==
    { <<"a">>,
      <<"a", "?">>,
      <<"?", "a">>,
      <<"a", "?", " ", "b">>,
      <<"a", "?", "?">>,
      <<"a", "?", " ", "b", "?", " ", "c">>,
      <<"<", "b", ">", "a", "?", "<", "/", "b", ">", "b">>,
      <<"Clave", ":", " ", "b">>,
      <<"Title", ":", "a", "?">>,
      <<"__otros__", ":", " ", "b">>,
      <<"c", ":">> }

HtmlSourceLines ==
    HtmlHeadings
    \cup { BulletPrefix \o item : item \in HtmlItems }
    \cup { <<"a", "?", " ", "b">>,
           <<"<", "p", ">", "-", " ", "a", "?", " ", "b", "<", "BR", " ", "/", ">",
             " ", "-", " ", "c", "<", "/", "p", ">">> }

RECURSIVE SeqsUpTo(_, _)
SeqsUpTo(S, n) ==
    IF n = 0 THEN {<<>>}
    ELSE LET shorter == SeqsUpTo(S, n - 1)
         IN shorter \cup { Append(s, x) : s \in shorter, x \in S }

HtmlDocs == { Join(ls, <<"\n">>) : ls \in SeqsUpTo(HtmlSourceLines, MaxHtmlLines) }

InitHtml ==
    /\ pc = "html_start"
    /\ content_html \in HtmlDocs
    /\ html_lines = <<>>
    /\ section = None
    /\ data = None
    /\ EncoderIdle /\ NormalizerIdle /\ MarkdownIdle /\ PlannerIdle /\ GatewayIdle
    /\ ScraperIdle

NextHtml == StripAndSplit \/ ParseContentLine \/ ParseContentReturn

SpecHtml == InitHtml /\ [][NextHtml]_vars

(***************************************************************************)
(* Claims about the HTML section parser                                    *)
(***************************************************************************)
\* The positions of an item after which it can be split: a question mark
\* that closes some text and is followed by remaining text.
QuestionSplits(item) ==
    { k \in 2..(Len(item) - 1) : item[k] = "?" /\ NonBlank(From(item, k + 1)) }

\* The entry an item stands for: split after its last such question mark.
ExpectedFaqEntry(item) ==
    IF QuestionSplits(item) = {}
    THEN [pregunta |-> None, respuesta |-> item]
    ELSE LET k == CHOOSE x \in QuestionSplits(item) :
                      \A y \in QuestionSplits(item) : y <= x
         IN [pregunta |-> Strip(SubSeq(item, 1, k)),
             respuesta |-> Strip(From(item, k + 1))]

\* C6: every bulleted line scanned while the current section is FAQ appends
\* exactly one entry to the FAQ list, the question and the answer split
\* after the question mark when text ending in "?" is followed by remaining
\* text and a null question with the whole item otherwise; the question
\* text is kept; every other line leaves the FAQ list as it is.
C6_HtmlFaqExtraction ==
    [][ (pc = "html" /\ html_lines # <<>>) =>
          LET line == Head(html_lines)
          IN IF section = <<"faq">> /\ StartsWith(line, BulletPrefix)
             THEN data'.faq =
                      Append(data.faq, ExpectedFaqEntry(Strip(From(line, 3))))
             ELSE data'.faq = data.faq ]_vars

\* A finished scan that produced a split entry followed by a fallback entry.
C6_Witness ==
    /\ pc = "html_done"
    /\ Len(data.faq) = 2
    /\ data.faq[1].pregunta = <<"a", "?", " ", "b", "?">>
    /\ data.faq[1].respuesta = <<"c">>
    /\ data.faq[2].pregunta = None
    /\ data.faq[2].respuesta = <<"a", "?">>

(***************************************************************************)
(* Markdown section parser (parse_openai_markdown)                         *)
(***************************************************************************)
\* The unit at position i, and a unit no str holds past either end.
At(s, i) == IF i \in 1..Len(s) THEN s[i] ELSE "<end>"

\* Number of consecutive units of s from position i that belong to S.
RECURSIVE RunLen(_, _, _)
RunLen(s, i, S) ==
    IF i \in 1..Len(s) /\ s[i] \in S THEN 1 + RunLen(s, i + 1, S) ELSE 0

\* s[i] s[i+1] is the bold marker.
BoldAt(s, i) == At(s, i) = "*" /\ At(s, i + 1) = "*"

\* Position of the first "\n" at or after i, 0 if there is none.
RECURSIVE NextNewline(_, _)
NextNewline(s, i) ==
    IF i > Len(s) THEN 0
    ELSE IF s[i] = "\n" THEN i ELSE NextNewline(s, i + 1)

\* ([^\n]+)\n after a \s+ that may hand back k of its units: the position
\* of the closing "\n" for the longest \s+ that lets the rest match, 0 if
\* none does.  from is the first position of the whitespace run.
RECURSIVE HeadingTitleEnd(_, _, _)
HeadingTitleEnd(s, from, k) ==
    IF k < 1 THEN 0
    ELSE IF At(s, from + k) \notin {"\n", "<end>"}
            /\ NextNewline(s, from + k) > 0
         THEN NextNewline(s, from + k)
         ELSE HeadingTitleEnd(s, from, k - 1)

\* The match of ^###\s+(\d+)\.\s+([^\n]+)\n (MULTILINE) that starts at
\* position i: its number and the position of its last unit; end = 0 when
\* there is no match at i.
HeadingAt(s, i) ==
    LET w1 == RunLen(s, i + 3, Whitespace)
        d == RunLen(s, i + 3 + w1, Digits)
        dot == i + 3 + w1 + d
        w2 == RunLen(s, dot + 1, Whitespace)
        ok == /\ (i = 1 \/ At(s, i - 1) = "\n")
              /\ At(s, i) = "#" /\ At(s, i + 1) = "#" /\ At(s, i + 2) = "#"
              /\ w1 >= 1 /\ d >= 1 /\ At(s, dot) = "." /\ w2 >= 1
    IN IF ok
       THEN [start |-> i, num |-> SubSeq(s, i + 3 + w1, dot - 1),
             end |-> HeadingTitleEnd(s, dot + 1, w2)]
       ELSE [start |-> i, num |-> <<>>, end |-> 0]

\* pattern.finditer(content_md) from position i on: the matches in order.
RECURSIVE Headings(_, _)
Headings(s, i) ==
    IF i > Len(s) THEN <<>>
    ELSE IF HeadingAt(s, i).end > 0
         THEN <<HeadingAt(s, i)>> \o Headings(s, HeadingAt(s, i).end + 1)
         ELSE Headings(s, i + 1)

\* Faulty variant of SectionBody: a section that the document lacks has
\* the whole document as its body.
SectionBodyWholeWhenMissing(s, num) ==
    LET hs == Headings(s, 1)
        with == { i \in 1..Len(hs) : hs[i].num = num }
    IN IF with = {} THEN s
       ELSE LET i == CHOOSE x \in with : \A y \in with : y <= x
                stop == IF i < Len(hs) THEN hs[i + 1].start - 1 ELSE Len(s)
            IN SubSeq(s, hs[i].start, stop)

\* sections.get(num, {}).get("body", ""): the text from the start of the
\* last heading numbered num to the start of the heading after it.
SectionBody(s, num) ==
    LET hs == Headings(s, 1)
        with == { i \in 1..Len(hs) : hs[i].num = num }
    IN IF with = {} THEN <<>>
       ELSE LET i == CHOOSE x \in with : \A y \in with : y <= x
                stop == IF i < Len(hs) THEN hs[i + 1].start - 1 ELSE Len(s)
            IN SubSeq(s, hs[i].start, stop)

\* str.splitlines(): "\n", "\r" and "\r\n" end a line.
RECURSIVE SplitLines(_, _)
SplitLines(s, acc) ==
    IF s = <<>> THEN (IF acc = <<>> THEN <<>> ELSE <<acc>>)
    ELSE IF Head(s) = "\r" /\ Len(s) >= 2 /\ s[2] = "\n"
         THEN <<acc>> \o SplitLines(From(s, 3), <<>>)
    ELSE IF Head(s) \in {"\n", "\r"}
         THEN <<acc>> \o SplitLines(Tail(s), <<>>)
    ELSE SplitLines(Tail(s), Append(acc, Head(s)))

\* Faulty variant of BulletsOf: a bullet equal to the one before it is
\* left out.
RECURSIVE BulletsOfNoRepeat(_)
BulletsOfNoRepeat(lines) ==
    IF lines = <<>> THEN <<>>
    ELSE LET rest == BulletsOfNoRepeat(Tail(lines))
             this == Strip(From(Strip(Head(lines)), 3))
         IN  IF StartsWith(Strip(Head(lines)), BulletPrefix)
                /\ (rest = <<>> \/ Head(rest) # this)
             THEN <<this>> \o rest ELSE rest

\* Section 1: one bullet per line whose stripped form starts with "- ".
RECURSIVE BulletsOf(_)
BulletsOf(lines) ==
    IF lines = <<>> THEN <<>>
    ELSE (IF StartsWith(Strip(Head(lines)), BulletPrefix)
          THEN <<Strip(From(Strip(Head(lines)), 3))>> ELSE <<>>)
         \o BulletsOf(Tail(lines))

\* Length of the match of \n-\s+\*\* at the head of s, 0 if there is none.
QuestionOpenLen(s) ==
    LET w == RunLen(s, 3, Whitespace)
    IN IF At(s, 1) = "\n" /\ At(s, 2) = "-" /\ w >= 1 /\ BoldAt(s, 3 + w)
       THEN 4 + w ELSE 0

\* re.split(r"\n-\s+\*\*", sec2)
RECURSIVE FaqBlocksFrom(_, _)
FaqBlocksFrom(s, acc) ==
    IF s = <<>> THEN <<acc>>
    ELSE IF QuestionOpenLen(s) > 0
         THEN <<acc>> \o FaqBlocksFrom(From(s, QuestionOpenLen(s) + 1), <<>>)
         ELSE FaqBlocksFrom(Tail(s), Append(acc, Head(s)))

\* Position of the last "\n" among the k units of s that start at i, 0 if
\* there is none.
RECURSIVE LastNewlineIn(_, _, _)
LastNewlineIn(s, i, k) ==
    IF k < 1 THEN 0
    ELSE IF s[i + k - 1] = "\n" THEN i + k - 1
    ELSE LastNewlineIn(s, i, k - 1)

\* Length of the match of \*\*\s*\n at the head of s, 0 if there is none.
NewlineCloseLen(s) ==
    IF BoldAt(s, 1) THEN LastNewlineIn(s, 3, RunLen(s, 3, Whitespace)) ELSE 0

\* Length of the match of \*\*\s*[:\-<en dash><em dash>]\s* at the head of s;
\* the units "&ndash;" and "&mdash;" are the two dash characters.
SeparatorCloseLen(s) ==
    LET w == RunLen(s, 3, Whitespace)
    IN IF BoldAt(s, 1) /\ At(s, 3 + w) \in {":", "-", "&ndash;", "&mdash;"}
       THEN 3 + w + RunLen(s, 4 + w, Whitespace) ELSE 0

\* Length of the match of \*\*\s+ at the head of s.
SpaceCloseLen(s) ==
    IF BoldAt(s, 1) /\ RunLen(s, 3, Whitespace) >= 1
    THEN 2 + RunLen(s, 3, Whitespace) ELSE 0

\* parts[1] of re.split(pattern, blk, maxsplit=1) for each of the three
\* patterns, None when the pattern matches nowhere.
RECURSIVE AfterNewlineClose(_)
AfterNewlineClose(s) ==
    IF s = <<>> THEN None
    ELSE IF NewlineCloseLen(s) > 0 THEN From(s, NewlineCloseLen(s) + 1)
    ELSE AfterNewlineClose(Tail(s))

RECURSIVE AfterSeparatorClose(_)
AfterSeparatorClose(s) ==
    IF s = <<>> THEN None
    ELSE IF SeparatorCloseLen(s) > 0 THEN From(s, SeparatorCloseLen(s) + 1)
    ELSE AfterSeparatorClose(Tail(s))

RECURSIVE AfterSpaceClose(_)
AfterSpaceClose(s) ==
    IF s = <<>> THEN None
    ELSE IF SpaceCloseLen(s) > 0 THEN From(s, SpaceCloseLen(s) + 1)
    ELSE AfterSpaceClose(Tail(s))

\* re.sub(r"\s+", " ", answer)
RECURSIVE CollapseWhitespace(_)
CollapseWhitespace(s) ==
    IF s = <<>> THEN <<>>
    ELSE IF IsSpace(Head(s))
         THEN <<" ">> \o CollapseWhitespace(
                             From(s, RunLen(s, 1, Whitespace) + 1))
         ELSE <<Head(s)>> \o CollapseWhitespace(Tail(s))

\* The answer of one question block (lines 130-141).
AnswerOf(blk) ==
    LET answer ==
            IF AfterNewlineClose(blk) # None THEN AfterNewlineClose(blk)
            ELSE IF AfterSeparatorClose(blk) # None
                 THEN AfterSeparatorClose(blk)
            ELSE IF AfterSpaceClose(blk) # None THEN AfterSpaceClose(blk)
            ELSE blk
    IN Strip(CollapseWhitespace(answer))

RECURSIVE AnswersOf(_)
AnswersOf(blocks) ==
    IF blocks = <<>> THEN <<>>
    ELSE (IF AnswerOf(Head(blocks)) # <<>>
          THEN <<AnswerOf(Head(blocks))>> ELSE <<>>)
         \o AnswersOf(Tail(blocks))

\* Section 2: the answers of the question blocks, the preamble skipped.
FaqAnswersOf(sec2) == AnswersOf(Tail(FaqBlocksFrom(sec2, <<>>)))

\* Position of the first unit of l after the prefix -\s+\*\*, 0 when l does
\* not start with that prefix.
AfterBulletBold(l) ==
    LET w == RunLen(l, 2, Whitespace)
    IN IF At(l, 1) = "-" /\ w >= 1 /\ BoldAt(l, 2 + w) THEN 4 + w ELSE 0

\* The units that occur in s.
UnitsOf(s) == {s[i] : i \in 1..Len(s)}

\* re.match(r"^-\s+\*\*([^*]+?):\*\*\s*(.+)$", l): the two groups, or None.
DetailColonInside(l) ==
    LET b == AfterBulletBold(l)
        n == RunLen(l, b, UnitsOf(l) \ {"*"})
        c == b + n - 1
    IN IF b > 0 /\ n >= 2 /\ l[c] = ":" /\ BoldAt(l, c + 1)
          /\ c + 2 < Len(l)
       THEN <<SubSeq(l, b, c - 1), LastGroup(From(l, c + 3))>>
       ELSE None

\* re.match(r"^-\s+\*\*([^:*]+)\*\*:\s*(.+)$", l): the two groups, or None.
DetailColonOutside(l) ==
    LET b == AfterBulletBold(l)
        n == RunLen(l, b, UnitsOf(l) \ {"*", ":"})
        e == b + n
    IN IF b > 0 /\ n >= 1 /\ BoldAt(l, e) /\ At(l, e + 2) = ":"
          /\ e + 2 < Len(l)
       THEN <<SubSeq(l, b, e - 1), LastGroup(From(l, e + 3))>>
       ELSE None

\* A match that tries the colon-outside form only.
DetailMatchOutsideOnly(l) == DetailColonOutside(l)

\* The groups of the first of the two forms that matches, or None.
DetailMatch(l) ==
    IF DetailColonInside(l) # None THEN DetailColonInside(l)
    ELSE DetailColonOutside(l)

\* Faulty variant of DetailsOf: the first line of a repeated field wins.
RECURSIVE DetailsOfFirstWins(_, _)
DetailsOfFirstWins(lines, dets) ==
    IF lines = <<>> THEN dets
    ELSE LET m == DetailMatch(Strip(Head(lines)))
         IN DetailsOfFirstWins(Tail(lines),
                      IF m # None /\ Lower(Strip(m[1])) \notin DOMAIN dets
                      THEN DictSet(dets, Lower(Strip(m[1])), Strip(m[2]))
                      ELSE dets)

\* Section 3: details[key] = val for every matching line, in line order.
RECURSIVE DetailsOf(_, _)
DetailsOf(lines, dets) ==
    IF lines = <<>> THEN dets
    ELSE LET m == DetailMatch(Strip(Head(lines)))
         IN DetailsOf(Tail(lines),
                      IF m # None
                      THEN DictSet(dets, Lower(Strip(m[1])), Strip(m[2]))
                      ELSE dets)

\* re.search(r"\*\*[Tt]itle", l)
HasTitleStart(l) ==
    \E i \in 1..Len(l) : BoldAt(l, i) /\ At(l, i + 2) \in {"Title", "title"}

\* The group of \*\*[Tt]itle[^:]*:\*\*\s*(.+)$ (IGNORECASE) matched from
\* position i, None when it does not match there.
TitleColonInsideAt(l, i) ==
    LET c == i + 3 + RunLen(l, i + 3, UnitsOf(l) \ {":"})
    IN IF BoldAt(l, i) /\ LowerUnit(At(l, i + 2)) = "title"
          /\ At(l, c) = ":" /\ BoldAt(l, c + 1) /\ c + 2 < Len(l)
       THEN LastGroup(From(l, c + 3))
       ELSE None

\* The group of \*\*[Tt]itle\*\*\s*:\s*(.+)$ (IGNORECASE) matched from
\* position i, None when it does not match there.
TitleColonOutsideAt(l, i) ==
    LET c == i + 5 + RunLen(l, i + 5, Whitespace)
    IN IF BoldAt(l, i) /\ LowerUnit(At(l, i + 2)) = "title"
          /\ BoldAt(l, i + 3) /\ At(l, c) = ":" /\ c < Len(l)
       THEN LastGroup(From(l, c + 1))
       ELSE None

\* re.search of the two title patterns: the group of the leftmost match.
RECURSIVE SearchTitleColonInside(_, _)
SearchTitleColonInside(l, i) ==
    IF i > Len(l) THEN None
    ELSE IF TitleColonInsideAt(l, i) # None THEN TitleColonInsideAt(l, i)
    ELSE SearchTitleColonInside(l, i + 1)

RECURSIVE SearchTitleColonOutside(_, _)
SearchTitleColonOutside(l, i) ==
    IF i > Len(l) THEN None
    ELSE IF TitleColonOutsideAt(l, i) # None THEN TitleColonOutsideAt(l, i)
    ELSE SearchTitleColonOutside(l, i + 1)

\* mt of lines 179-182: the first form, then the second.
TitleMatch(l) ==
    IF SearchTitleColonInside(l, 1) # None
    THEN SearchTitleColonInside(l, 1)
    ELSE SearchTitleColonOutside(l, 1)

\* re.match(r"^-\s+\*\*(.+?)\*\*\s*$", l): group 1, or None.  The lazy
\* group ends where a bold marker is followed by nothing but whitespace,
\* which is only before the last marker of the line.
BoldOnlyMatch(l) ==
    LET b == AfterBulletBold(l)
        t == RStrip(l)
        e == Len(t) - 2
    IN IF b > 0 /\ e >= b /\ BoldAt(t, e + 1)
       THEN SubSeq(t, b, e)
       ELSE None

\* re.search(r'(?i)(body|title|título|video):', extracted_text)
IsReservedWord(t) ==
    \E i \in 1..Len(t) :
        /\ LowerUnit(t[i]) \in {"body", "title", "título", "video"}
        /\ At(t, i + 1) = ":"

\* \*\*<word>[^*]*\*\* matched from position i, for the two spellings of
\* the word that the character class admits.
MarkerAt(c, i, spellings) ==
    /\ BoldAt(c, i)
    /\ At(c, i + 2) \in spellings
    /\ BoldAt(c, i + 3 + RunLen(c, i + 3, UnitsOf(c) \ {"*"}))

\* re.search(r'\*\*[Tt]itle[^*]*\*\*', content)
HasTitleMarker(c) == \E i \in 1..Len(c) : MarkerAt(c, i, {"Title", "title"})

\* re.search(r'\*\*[Vv]ideo[^*]*\*\*', content)
HasVideoMarker(c) == \E i \in 1..Len(c) : MarkerAt(c, i, {"Video", "video"})

\* re.search(r'^\*\*[Bb]ody[^*]*\*\*', content)
StartsWithBodyMarker(c) == MarkerAt(c, 1, {"Body", "body"})

\* Faulty variant of PassesBodyFilters: the Video filter is left out.
PassesBodyFiltersNoVideo(c) ==
    ~HasTitleMarker(c) /\ ~StartsWithBodyMarker(c)

\* The three filters of lines 213-215 and 222-224.
PassesBodyFilters(c) ==
    ~HasTitleMarker(c) /\ ~HasVideoMarker(c) /\ ~StartsWithBodyMarker(c)

\* while content.startswith('- '): content = content[2:].strip()
RECURSIVE StripBullets(_)
StripBullets(content) ==
    IF StartsWith(content, BulletPrefix)
    THEN StripBullets(Strip(From(content, 3)))
    ELSE content

\* The state of the section-4 scan.
ScanState(title, body_lines, processed) ==
    [video_title |-> title, video_body_lines |-> body_lines,
     first_bullet_processed |-> processed]

\* Faulty variant of VideoLineStep: a bold-only bullet is taken as the title
\* even when one has been captured.
VideoLineStepEveryBold(line, title, body_lines, processed) ==
    LET l == Strip(line)
        same == ScanState(title, body_lines, processed)
        content == StripBullets(l)
    IN IF StartsWith(l, <<"#", "#", "#">>) THEN same
       ELSE IF StartsWith(l, BulletPrefix)
       THEN IF HasTitleStart(l)
            THEN IF TitleMatch(l) # None
                 THEN ScanState(Strip(TitleMatch(l)), body_lines, TRUE)
                 ELSE same
            ELSE IF BoldOnlyMatch(l) # None
                 THEN IF ~IsReservedWord(Strip(BoldOnlyMatch(l)))
                      THEN ScanState(Strip(BoldOnlyMatch(l)), body_lines, TRUE)
                      ELSE same
                 ELSE IF StartsWithBodyMarker(l) THEN same
                 ELSE IF content # <<>> /\ PassesBodyFilters(content)
                 THEN ScanState(title, Append(body_lines, content), processed)
                 ELSE same
       ELSE IF l # <<>> /\ PassesBodyFilters(l)
            THEN ScanState(title, Append(body_lines, l), processed)
            ELSE same

\* The body of "for line in sec4.splitlines()" for one line (lines 168-225).
VideoLineStep(line, title, body_lines, processed) ==
    LET l == Strip(line)
        same == ScanState(title, body_lines, processed)
        content == StripBullets(l)
    IN IF StartsWith(l, <<"#", "#", "#">>) THEN same
       ELSE IF StartsWith(l, BulletPrefix)
       THEN IF HasTitleStart(l)
            THEN IF TitleMatch(l) # None
                 THEN ScanState(Strip(TitleMatch(l)), body_lines, TRUE)
                 ELSE same
            ELSE IF BoldOnlyMatch(l) # None /\ ~processed
                 THEN IF ~IsReservedWord(Strip(BoldOnlyMatch(l)))
                      THEN ScanState(Strip(BoldOnlyMatch(l)), body_lines, TRUE)
                      ELSE same
                 ELSE IF StartsWithBodyMarker(l) THEN same
                 ELSE IF content # <<>> /\ PassesBodyFilters(content)
                 THEN ScanState(title, Append(body_lines, content), processed)
                 ELSE same
       ELSE IF l # <<>> /\ PassesBodyFilters(l)
            THEN ScanState(title, Append(body_lines, l), processed)
            ELSE same

\* Faulty variant of VideoBodyOf: the lines are joined with a blank line
\* between them.
VideoBodyOfBlankLines(body_lines) ==
    IF body_lines = <<>> THEN None
    ELSE Strip(Join(body_lines, <<"\n", "\n">>))

\* "\n".join(video_body_lines).strip() if video_body_lines else None
VideoBodyOf(body_lines) ==
    IF body_lines = <<>> THEN None ELSE Strip(Join(body_lines, <<"\n">>))

\* sections, bullets, faq_answers, details and the start of the section-4
\* scan (lines 96-164).
ParseSections ==
    /\ pc = "markdown"
    /\ bullets' = BulletsOf(SplitLines(SectionBody(content_md, <<"1">>), <<>>))
    /\ faq_answers' = FaqAnswersOf(SectionBody(content_md, <<"2">>))
    /\ details' = DetailsOf(SplitLines(SectionBody(content_md, <<"3">>), <<>>),
                            EmptyDict)
    /\ sec4_lines' = SplitLines(SectionBody(content_md, <<"4">>), <<>>)
    /\ video_title' = None
    /\ video_body_lines' = <<>>
    /\ first_bullet_processed' = FALSE
    /\ pc' = "scan"
    /\ UNCHANGED <<content_md, parsed>>
    /\ UNCHANGED <<scraperVars, encoderVars, normalizerVars, plannerVars, htmlVars, gatewayVars>>

\* One iteration of "for line in sec4.splitlines()".
ScanVideoLine ==
    /\ pc = "scan"
    /\ sec4_lines # <<>>
    /\ LET st == VideoLineStep(Head(sec4_lines), video_title,
                               video_body_lines, first_bullet_processed)
       IN /\ video_title' = st.video_title
          /\ video_body_lines' = st.video_body_lines
          /\ first_bullet_processed' = st.first_bullet_processed
    /\ sec4_lines' = Tail(sec4_lines)
    /\ UNCHANGED <<pc, content_md, bullets, faq_answers, details, parsed>>
    /\ UNCHANGED <<scraperVars, encoderVars, normalizerVars, plannerVars, htmlVars, gatewayVars>>

\* video_body = ...; return {...}; main goes on to the planner.
ParseReturn ==
    /\ pc = "scan"
    /\ sec4_lines = <<>>
    /\ parsed' = [bullets |-> bullets, faq_answers |-> faq_answers,
                  details |-> details, video_title |-> video_title,
                  video_body |-> VideoBodyOf(video_body_lines)]
    /\ pc' = "planner"
    /\ UNCHANGED <<content_md, bullets, faq_answers, details, sec4_lines,
                   video_title, video_body_lines, first_bullet_processed>>
    /\ UNCHANGED <<scraperVars, encoderVars, normalizerVars, plannerVars, htmlVars, gatewayVars>>

(***************************************************************************)
(* Specification Spec: a run of the updater on a Markdown document: the    *)
(* parser, then the planner's two functions.                               *)
(***************************************************************************)
\* Most question blocks in a generated section 2.
MaxFaqBlocks == 2
\* Most lines in a generated section 3.
MaxDetailLines == 2
\* Most lines in a generated section 4.
MaxVideoLines == 3
\* Most lines in a generated section 1.
MaxBulletLines == 3

RECURSIVE Concat(_)
Concat(parts) ==
    IF parts = <<>> THEN <<>> ELSE Head(parts) \o Concat(Tail(parts))

\* The heading line of section n.
MdHeading(n, title) == <<"#", "#", "#", " ", n, ".", " ", title, "\n">>

Bold(units) == <<"*", "*">> \o units \o <<"*", "*">>

Question == BulletPrefix \o Bold(<<"¿", "Qué", " ", "incluye", "?">>)

\* Question blocks: the question, what closes it and the answer.
FaqBlockForms ==
    { Question \o <<"\n", "Todo", " ", "el", " ", "set", ".", "\n">>,
      Question \o <<":", " ", "a", "\n">>,
      Question \o <<" ", "-", " ", "a", "\n">>,
      Question \o <<" ", "&ndash;", " ", "a", "\n">>,
      BulletPrefix \o Bold(<<"Qué", ":">>) \o <<" ", "a", "\n">>,
      Question \o <<" ", " ", "a", "\n">>,
      Question \o <<"\n">>,
      Question \o <<"\n", "a", "\n", " ", " ", "b", "\n">>,
      Question \o <<" ", "Sí", " ">> \o Bold(<<"todo">>) \o <<"\n">>,
      Question \o <<" ", "a", " ">> \o Bold(<<"b">>) \o <<":", " ", "c", "\n">> }

FaqExample ==
    MdHeading("2", "FAQ") \o Question
    \o <<"\n", "Todo", " ", "el", " ", "set", ".">>

FaqSections ==
    { MdHeading("2", "FAQ") \o Concat(bs) :
          bs \in SeqsUpTo(FaqBlockForms, MaxFaqBlocks) }
    \cup {FaqExample}

DetailLineForms ==
    { BulletPrefix \o Bold(<<"Ancho", ":">>) \o <<" ", "1", "2", " ", "cm", "\n">>,
      BulletPrefix \o Bold(<<"Piezas", ":">>)
          \o <<" ", "1", "5", "0", " ", "pzas", "\n">>,
      BulletPrefix \o Bold(<<"Ancho">>) \o <<":", " ", "7", ",", "5", " ", "cm", "\n">>,
      BulletPrefix \o Bold(<<"Escala", ":">>) \o <<" ", "1", ":", "5", "0", "\n">>,
      BulletPrefix \o Bold(<<"Piezas", ":">>) \o <<" ", "no", " ", "disponible", "\n">>,
      BulletPrefix \o <<"Ancho", ":", " ", "3", "\n">>,
      <<" ", "-", " ", " ">> \o Bold(<<"Alto", " ", ":">>)
          \o <<"5", ":", "*", "*", " ", "\n">>,
      BulletPrefix \o Bold(<<"Alto", ":">>) \o <<" ", "\n">> }

DetailSections ==
    { MdHeading("3", "Detalles") \o Concat(ls) :
          ls \in SeqsUpTo(DetailLineForms, MaxDetailLines) }

VideoLineForms ==
    { BulletPrefix \o Bold(<<"Mi", " ", "Gran", " ", "Título">>),
      BulletPrefix \o <<"Primera", " ", "línea", " ", "del", " ", "cuerpo", ".">>,
      BulletPrefix \o Bold(<<"a">>) \o <<" ", "x", " ">> \o Bold(<<"b">>),
      BulletPrefix \o Bold(<<"T">>),
      BulletPrefix \o Bold(<<"Body", ":">>),
      BulletPrefix \o Bold(<<"Title", ":">>) \o <<" ", "X">>,
      BulletPrefix \o Bold(<<"Video", ":", " ", "x">>),
      <<"a", ".">>,
      BulletPrefix \o BulletPrefix \o <<"b">>,
      <<"#", "#", "#", " ", "x">> }

VideoSections ==
    { MdHeading("4", "Video") \o Join(ls, <<"\n">>) :
          ls \in SeqsUpTo(VideoLineForms, MaxVideoLines) }

BulletSection ==
    MdHeading("1", "Viñetas") \o <<"-", " ", "a", "\n", "-", " ", "b", "\n">>

VideoExample ==
    MdHeading("4", "Video")
    \o BulletPrefix \o Bold(<<"Mi", " ", "Gran", " ", "Título">>) \o <<"\n">>
    \o BulletPrefix
    \o <<"Primera", " ", "línea", " ", "del", " ", "cuerpo", ".">>

\* Lines of a generated section 1: bullets, plain and indented, with inner
\* bullet prefixes, and lines that are no bullets.
BulletLineForms ==
    { <<"-", " ", "a", "\n">>,
      <<" ", " ", "-", " ", "b", " ", "\n">>,
      <<"-", "c", "\n">>,
      <<"*", " ", "d", "\n">>,
      <<"\n">>,
      <<"-", " ", "-", " ", "e", "\n">>,
      <<"-", " ", "\n">>,
      <<"-", "\t", "f", "\n">> }

BulletSections ==
    { MdHeading("1", "Viñetas") \o Concat(ls) :
          ls \in SeqsUpTo(BulletLineForms, MaxBulletLines) }

RECURSIVE Repeat(_, _)
Repeat(s, n) == IF n = 0 THEN <<>> ELSE s \o Repeat(s, n - 1)

\* A section 1 of n bullets, the first one told apart from the others.
ManyBullets(n) ==
    MdHeading("1", "Viñetas")
    \o (IF n = 0 THEN <<>>
        ELSE <<"-", " ", "a", "\n">> \o Repeat(<<"-", " ", "b", "\n">>, n - 1))

\* Documents without any heading, with a section number twice, with the
\* sections out of order, with numbers outside 1..4, and with a last
\* heading line that no line break ends.
MalformedDocs ==
    { <<"a", ".", "\n", "-", " ", "b", "\n">>,
      BulletPrefix \o Bold(<<"Ancho", ":">>) \o <<" ", "3", "\n">>,
      MdHeading("1", "Viñetas") \o <<"-", " ", "a", "\n">>
          \o MdHeading("1", "Viñetas") \o <<"-", " ", "b", "\n">>,
      MdHeading("3", "Detalles")
          \o BulletPrefix \o Bold(<<"Ancho", ":">>) \o <<" ", "3", "\n">>
          \o MdHeading("3", "Detalles")
          \o BulletPrefix \o Bold(<<"Alto", ":">>) \o <<" ", "1", "\n">>,
      MdHeading("4", "Video") \o BulletPrefix \o Bold(<<"T">>) \o <<"\n">>
          \o MdHeading("3", "Detalles")
          \o BulletPrefix \o Bold(<<"Ancho", ":">>) \o <<" ", "3", "\n">>
          \o MdHeading("1", "Viñetas") \o <<"-", " ", "a", "\n">>,
      MdHeading("7", "Otra") \o <<"-", " ", "a", "\n">>,
      MdHeading("1", "Viñetas") \o <<"-", " ", "a", "\n">>
          \o MdHeading("7", "Otra") \o <<"-", " ", "b", "\n">>,
      MdHeading("1", "Viñetas") \o <<"-", " ", "a", "\n">>
          \o <<"#", "#", "#", " ", "2", ".", " ", "FAQ">>,
      <<"#", "#", "#", " ", "1", ".", " ", "Viñetas">>,
      <<"#", "#", " ", "1", ".", " ", "Viñetas", "\n", "-", " ", "a", "\n">>,
      <<"#", "#", "#", " ", "Viñetas", "\n", "-", " ", "a", "\n">> }

\* Documents of one section, documents of the four sections in order, and
\* malformed documents.
MarkdownDocs ==
    FaqSections \cup DetailSections \cup VideoSections
    \cup { BulletSection \o FaqExample \o <<"\n">> \o d \o VideoExample :
               d \in DetailSections }
    \cup BulletSections
    \cup { ManyBullets(n) : n \in 0..MaxBullets }
    \cup MalformedDocs

\* Identifier maps of a run: the two numeric keys only, every key of the
\* schema, every key but the width.
PipelineIdsMaps ==
    { [k \in K |-> IdOf(k)] :
          K \in { {"ancho", "piezas"}, SchemaKeys, SchemaKeys \ {"ancho"} } }

Init ==
    /\ pc = "markdown"
    /\ content_md \in MarkdownDocs
    /\ product_gid \in ProductGids
    /\ ids_map \in PipelineIdsMaps
    /\ bullets = <<>> /\ faq_answers = <<>> /\ details = <<>>
    /\ sec4_lines = <<>> /\ video_title = None /\ video_body_lines = <<>>
    /\ first_bullet_processed = FALSE
    /\ parsed = None /\ updates = None /\ inputs = None
    /\ EncoderIdle /\ NormalizerIdle /\ HtmlIdle /\ GatewayIdle
    /\ ScraperIdle

Next ==
    \/ ParseSections
    \/ ScanVideoLine
    \/ ParseReturn
    \/ GeneratePutUpdates
    \/ BuildMissingMetafieldsInputs

Spec == Init /\ [][Next]_vars

(***************************************************************************)
(* Claims about the Markdown parser and the run                            *)
(***************************************************************************)
AfterParse == pc \in {"planner", "updates", "inputs", "planned"}

\* The lines of section n of the document, its heading line left out.
SectionLines(n) == Tail(SplitLines(SectionBody(content_md, <<n>>), <<>>))

\* The two detail lines of the numeric scenario.
AnchoLine ==
    <<"-", " ", "*", "*", "Ancho", ":", "*", "*", " ", "1", "2", " ", "cm">>
PiezasLine ==
    <<"-", " ", "*", "*", "Piezas", ":", "*", "*", " ", "1", "5", "0", " ", "pzas">>

\* The details section has the two lines, in either order, and the
\* identifier map holds the width and the pieces keys and no key of another
\* field that the document gives a value.
NumericScenario ==
    /\ SectionBody(content_md, <<"3">>) # <<>>
    /\ SectionLines("3") \in {<<AnchoLine, PiezasLine>>, <<PiezasLine, AnchoLine>>}
    /\ {"ancho", "piezas"} \subseteq DOMAIN ids_map
    /\ \A f \in DOMAIN ids_map \ {"ancho", "piezas"} : IsNullField(f, parsed)

ScenarioUpdates(width_type) ==
    << [id |-> ids_map["ancho"], value |-> <<"1", "2">>,
        value_type |-> width_type],
       [id |-> ids_map["piezas"], value |-> <<"1", "5", "0">>,
        value_type |-> "integer"] >>

\* C3 (as the code has it): in the numeric scenario the planner emits
\* exactly two update instructions, the width with value "12" and value
\* type string, then the pieces with value "150" and value type integer.
C3_NumericScenario ==
    pc \in {"updates", "planned"} /\ NumericScenario
        => updates = ScenarioUpdates("string")

\* C3 as stated: the width instruction carries the value type decimal.
C3_AsStated ==
    pc \in {"updates", "planned"} /\ NumericScenario
        => updates = ScenarioUpdates("decimal")

\* A run of the numeric scenario with every key of the schema in the map.
C3_Witness ==
    /\ pc = "updates" /\ NumericScenario
    /\ DOMAIN ids_map = SchemaKeys
    /\ Len(updates) = 2

\* The lines of section 4.
VideoLines == SectionLines("4")

\* What follows the "- " of a bulleted line.
BulletBody(l) == Strip(From(Strip(l), 3))

\* A bulleted line that is one bold run and nothing else.
IsSingleBoldRun(l) ==
    LET t == BulletBody(l)
    IN /\ StartsWith(Strip(l), BulletPrefix)
       /\ Len(t) >= 5 /\ BoldAt(t, 1) /\ BoldAt(t, Len(t) - 1)
       /\ \A i \in 3..(Len(t) - 3) : ~BoldAt(t, i)

BoldRunText(l) == Strip(SubSeq(BulletBody(l), 3, Len(BulletBody(l)) - 2))

\* A line that the bold-only rule names as the title.
IsTitleCandidate(l) == IsSingleBoldRun(l) /\ ~IsReservedWord(BoldRunText(l))

TitleCandidates == { i \in 1..Len(VideoLines) : IsTitleCandidate(VideoLines[i]) }

FirstCandidate == CHOOSE i \in TitleCandidates : \A j \in TitleCandidates : i <= j

\* A line that goes to the body when it follows the title: not empty, not
\* a sub-heading and free of Title, Video and Body markers.
IsBodyLine(l) ==
    /\ StripBullets(Strip(l)) # <<>>
    /\ ~StartsWith(Strip(l), <<"#", "#", "#">>)
    /\ PassesBodyFilters(StripBullets(Strip(l)))

RECURSIVE BodyOfLines(_)
BodyOfLines(ls) ==
    IF ls = <<>> THEN <<>>
    ELSE (IF IsBodyLine(Head(ls)) THEN <<StripBullets(Strip(Head(ls)))>> ELSE <<>>)
         \o BodyOfLines(Tail(ls))

\* xs ends with ys.
EndsWith(xs, ys) ==
    Len(xs) >= Len(ys) /\ SubSeq(xs, Len(xs) - Len(ys) + 1, Len(xs)) = ys

\* C4: when section 4 has no Title-marker line, the first bulleted line
\* that is entirely one bold run without a reserved word and colon is the
\* video title, and the non-empty, non-marker lines after it are the last
\* lines of the video body, in document order.
C4_TitleBodyDisambiguation ==
    /\ AfterParse
    /\ SectionBody(content_md, <<"4">>) # <<>>
    /\ \A i \in 1..Len(VideoLines) : ~HasTitleStart(VideoLines[i])
    /\ TitleCandidates # {}
    => /\ parsed.video_title = BoldRunText(VideoLines[FirstCandidate])
       /\ EndsWith(video_body_lines,
                   BodyOfLines(From(VideoLines, FirstCandidate + 1)))

\* The question blocks of section 2, each from the end of the "- **" that
\* opens it.
QuestionBlocks == Tail(FaqBlocksFrom(SectionBody(content_md, <<"2">>), <<>>))

\* Position of the marker that closes the question's bold run, 0 if the
\* run is not closed.
RECURSIVE BoldCloseFrom(_, _)
BoldCloseFrom(blk, i) ==
    IF i >= Len(blk) THEN 0
    ELSE IF BoldAt(blk, i) THEN i ELSE BoldCloseFrom(blk, i + 1)

AfterQuestion(blk) == From(blk, BoldCloseFrom(blk, 1) + 2)

\* The question is closed and followed by a line break, a separator,
\* spaces or nothing.
IsQuestionBlock(blk) ==
    LET rest == AfterQuestion(blk)
    IN /\ BoldCloseFrom(blk, 1) > 0
       /\ \/ rest = <<>>
          \/ IsSpace(Head(rest))
          \/ Head(rest) \in {":", "-", "&ndash;", "&mdash;"}

\* The whole text after the closing of the question, the separator left
\* out, whitespace-collapsed and trimmed.
WholeAnswer(blk) ==
    LET rest == AfterQuestion(blk)
        w == RunLen(rest, 1, Whitespace)
        after == IF \E i \in 1..w : rest[i] = "\n" THEN From(rest, w + 1)
                ELSE IF At(rest, w + 1) \in {":", "-", "&ndash;", "&mdash;"}
                     THEN From(rest, w + 2)
                ELSE From(rest, w + 1)
    IN Strip(CollapseWhitespace(after))

RECURSIVE WholeAnswers(_)
WholeAnswers(blocks) ==
    IF blocks = <<>> THEN <<>>
    ELSE (IF WholeAnswer(Head(blocks)) # <<>>
          THEN <<WholeAnswer(Head(blocks))>> ELSE <<>>)
         \o WholeAnswers(Tail(blocks))

\* C5: the answers of section 2 are, block by block, the whole text after
\* the closing of the question's bold run (after a line break, a separator
\* or spaces), whitespace-collapsed and trimmed; an empty answer adds
\* nothing.
C5_FaqAnswerExtraction ==
    /\ pc # "markdown"
    /\ SectionBody(content_md, <<"2">>) # <<>>
    /\ \A i \in 1..Len(QuestionBlocks) : IsQuestionBlock(QuestionBlocks[i])
    => faq_answers = WholeAnswers(QuestionBlocks)

(***************************************************************************)
(* Claims on the sections of the Markdown parser (Spec).  The document is  *)
(* read here line by line: a heading line is "###", blanks, a number, a    *)
(* dot, blanks and a title, ended by a line break; a section is made of    *)
(* the lines between its heading line and the next heading line.           *)
(***************************************************************************)
\* The position of the first line break of s at or after b, 0 without one.
NewlineFrom(s, b) ==
    IF \A i \in b..Len(s) : s[i] # "\n" THEN 0
    ELSE CHOOSE i \in b..Len(s) :
            s[i] = "\n" /\ \A j \in b..(i - 1) : s[j] # "\n"

LineStarts(s) == { b \in 1..Len(s) : b = 1 \/ s[b - 1] = "\n" }

\* The line that starts at position b, without its line break.
LineFrom(s, b) ==
    SubSeq(s, b, IF NewlineFrom(s, b) = 0 THEN Len(s) ELSE NewlineFrom(s, b) - 1)

Blank(l, lo, hi) == \A i \in lo..hi : l[i] \in {" ", "\t"}

\* The ways of reading line l as a heading: the lengths of the blanks
\* before the number, of the number, and of the blanks after the dot, with
\* a title of one unit at least after them.
HeadingReadings(l) ==
    IF Len(l) < 3 \/ SubSeq(l, 1, 3) # <<"#", "#", "#">> THEN {}
    ELSE UNION { UNION { { <<w1, d, w2>> :
                    w2 \in { x \in 1..(Len(l) - 5 - w1 - d) :
                               Blank(l, 5 + w1 + d, 4 + w1 + d + x) } } :
               d \in { x \in 1..(Len(l) - 4 - w1) :
                         /\ \A i \in (4 + w1)..(3 + w1 + x) : IsDigit(l[i])
                         /\ l[4 + w1 + x] = "." } } :
           w1 \in { x \in 1..(Len(l) - 3) : Blank(l, 4, 3 + x) } }

IsHeadingLine(s, b) ==
    NewlineFrom(s, b) # 0 /\ HeadingReadings(LineFrom(s, b)) # {}

HeadingNumber(s, b) ==
    LET l == LineFrom(s, b)
        r == CHOOSE x \in HeadingReadings(l) : TRUE
    IN  SubSeq(l, 4 + r[1], 3 + r[1] + r[2])

HeadingStarts(s) == { b \in LineStarts(s) : IsHeadingLine(s, b) }

\* The heading lines of the document that carry number n.
SectionStarts(n) ==
    { b \in HeadingStarts(content_md) : HeadingNumber(content_md, b) = <<n>> }

\* The lines between the heading line at b and the next heading line.
LinesUnder(s, b) ==
    LET starts == Ascending({ c \in LineStarts(s) :
                      /\ c > b
                      /\ \A h \in HeadingStarts(s) : ~(b < h /\ h <= c) })
    IN  [i \in 1..Len(starts) |-> LineFrom(s, starts[i])]

\* C12: parse_openai_markdown returns a ParsedContent for every document,
\* also for one without headings or markers, with a section number twice,
\* with sections out of order and with repeated detail fields: the parser
\* is always in its section pass, in its line scan or returned (no step of
\* it ends in an exception), and in the result a group whose section the
\* document lacks is the empty list (bullets, faq_answers), the empty
\* mapping (details) or None (video_title, video_body).
C12_ParserNeverRaises ==
    LET lacks == { n \in {"1", "2", "3", "4"} : SectionStarts(n) = {} }
    IN  /\ pc \in {"markdown", "scan"} \/ AfterParse
        /\ pc = "scan" =>
            /\ "1" \in lacks => bullets = <<>>
            /\ "2" \in lacks => faq_answers = <<>>
            /\ "3" \in lacks => DOMAIN details = {}
            /\ "4" \in lacks => sec4_lines = <<>>
        /\ AfterParse =>
            /\ DOMAIN parsed = {"bullets", "faq_answers", "details",
                                "video_title", "video_body"}
            /\ "1" \in lacks => parsed.bullets = <<>>
            /\ "2" \in lacks => parsed.faq_answers = <<>>
            /\ "3" \in lacks => DOMAIN parsed.details = {}
            /\ "4" \in lacks =>
                  parsed.video_title = None /\ parsed.video_body = None

\* A document of section 2 only, parsed to the answer and defaults.
C12_Witness ==
    /\ AfterParse
    /\ content_md = FaqExample
    /\ parsed.bullets = <<>>
    /\ parsed.faq_answers = << <<"Todo", " ", "el", " ", "set", ".">> >>
    /\ DOMAIN parsed.details = {}
    /\ parsed.video_title = None /\ parsed.video_body = None

IsBulletLine(l) ==
    Len(Strip(l)) >= 2 /\ Strip(l)[1] = "-" /\ Strip(l)[2] = " "

\* One entry per bullet line, in the order of the lines: the trimmed line
\* without its "- ", trimmed.
ExpectedBullets(lines) ==
    LET keep == SelectSeq(lines, IsBulletLine)
    IN  [i \in 1..Len(keep) |->
            Strip(SubSeq(Strip(keep[i]), 3, Len(Strip(keep[i]))))]

\* C13: bullets holds exactly one entry per line of section 1 whose trimmed
\* form starts with "- ", in document order and without deduplication; no
\* line of another section adds to it (without a section 1 it is empty);
\* extracting the bullets of the same document again gives the same list.
C13_BulletExtraction ==
    AfterParse =>
        /\ IF SectionStarts("1") = {} THEN parsed.bullets = <<>>
           ELSE \E b \in SectionStarts("1") :
                   parsed.bullets = ExpectedBullets(LinesUnder(content_md, b))
        /\ BulletsOf(SplitLines(SectionBody(content_md, <<"1">>), <<>>))
              = parsed.bullets

\* The same bullet twice, then an indented one.
C13_Witness ==
    /\ AfterParse
    /\ content_md = MdHeading("1", "Viñetas")
          \o <<"-", " ", "a", "\n", "-", " ", "a", "\n",
               " ", " ", "-", " ", "b", " ", "\n">>
    /\ parsed.bullets = << <<"a">>, <<"a">>, <<"b">> >>

\* C14: the bullets of the ParsedContent returned by the Markdown parser
\* are between 0 and 5 in number, for every document.
C14_BulletCountBound ==
    AfterParse => Len(parsed.bullets) \in 0..5

\* The ways of reading the trimmed line t as "- **<field><closing><value>":
\* the lengths of the blanks after the dash and of the field, a field
\* without "*" and a value of one unit at least.
DetailReadings(t, closing) ==
    { r \in (1..Len(t)) \X (1..Len(t)) :
        /\ 6 + r[1] + r[2] < Len(t)
        /\ t[1] = "-"
        /\ \A i \in 2..(1 + r[1]) : IsSpace(t[i])
        /\ SubSeq(t, 2 + r[1], 3 + r[1]) = <<"*", "*">>
        /\ \A i \in (4 + r[1])..(3 + r[1] + r[2]) : t[i] # "*"
        /\ SubSeq(t, 4 + r[1] + r[2], 6 + r[1] + r[2]) = closing }

\* The readings with the colon inside the bold run, and those with the
\* colon after it, whose field has no colon.
ColonInside(t) == DetailReadings(t, <<":", "*", "*">>)
ColonOutside(t) ==
    { r \in DetailReadings(t, <<"*", "*", ":">>) :
        \A i \in (4 + r[1])..(3 + r[1] + r[2]) : t[i] # ":" }

IsDetailLine(l) == ColonInside(Strip(l)) \cup ColonOutside(Strip(l)) # {}

\* The reading of a detail line: the first form before the second, the
\* shortest field of the form.
DetailReading(l) ==
    LET t == Strip(l)
        rs == IF ColonInside(t) # {} THEN ColonInside(t) ELSE ColonOutside(t)
    IN  CHOOSE r \in rs : \A o \in rs : r[2] <= o[2]

DetailField(l) ==
    LET r == DetailReading(l)
    IN  Lower(Strip(SubSeq(Strip(l), 4 + r[1], 3 + r[1] + r[2])))

DetailValue(l) ==
    LET r == DetailReading(l)
    IN  Strip(SubSeq(Strip(l), 7 + r[1] + r[2], Len(Strip(l))))

\* The mapping that the lines describe: every field of a detail line, with
\* the value of the last detail line of that field.
ExpectedDetails(lines) ==
    LET matching == { i \in 1..Len(lines) : IsDetailLine(lines[i]) }
        fields == { DetailField(lines[i]) : i \in matching }
        LastOf(f) == CHOOSE i \in matching :
                        /\ DetailField(lines[i]) = f
                        /\ \A j \in matching :
                              DetailField(lines[j]) = f => j <= i
    IN  [f \in fields |-> DetailValue(lines[LastOf(f)])]

\* C15: for every line of section 3 of the form "- **<field>:** <value>" or
\* "- **<field>**: <value>", details maps the lower-cased, trimmed field to
\* the trimmed value; of the lines of one field the last one gives the
\* value; the other lines leave details as it is.
C15_DetailsExtraction ==
    AfterParse =>
        IF SectionStarts("3") = {} THEN DOMAIN parsed.details = {}
        ELSE \E b \in SectionStarts("3") :
                parsed.details = ExpectedDetails(LinesUnder(content_md, b))

\* The width twice, colon inside and then outside: the second value stays.
C15_Witness ==
    /\ AfterParse
    /\ content_md = MdHeading("3", "Detalles")
          \o BulletPrefix \o Bold(<<"Ancho", ":">>)
          \o <<" ", "1", "2", " ", "cm", "\n">>
          \o BulletPrefix \o Bold(<<"Ancho">>)
          \o <<":", " ", "7", ",", "5", " ", "cm", "\n">>
    /\ DOMAIN parsed.details = {<<"ancho">>}
    /\ parsed.details[<<"ancho">>] = <<"7", ",", "5", " ", "cm">>

(***************************************************************************)
(* Remote gateway: execute_put_updates.  A remote call either fails in     *)
(* the network (requests raises a RequestException) or brings a response   *)
(* with a status and a body that is JSON or is not.                        *)
(***************************************************************************)
\* Most instructions in a list given to execute_put_updates.
MaxUpdates == 3

PutOutcomes ==
    { [kind |-> "network_error", status |-> 0, json |-> FALSE],
      [kind |-> "response", status |-> 200, json |-> TRUE],
      [kind |-> "response", status |-> 200, json |-> FALSE],
      [kind |-> "response", status |-> 299, json |-> TRUE],
      [kind |-> "response", status |-> 300, json |-> TRUE],
      [kind |-> "response", status |-> 500, json |-> FALSE] }

\* requests.put(url, headers=headers, json=payload, timeout=60)
PutRequest(upd) ==
    [method |-> "PUT", metafield_id |-> upd.id,
     payload |-> [metafield |-> [id |-> upd.id, value |-> upd.value,
                                 value_type |-> upd.value_type]]]

\* Faulty variant of PutResult: every status below 400 counts as a success.
PutResultOkBelow400(upd, outcome) ==
    IF outcome.kind = "network_error"
    THEN [id |-> upd.id, status |-> 0, ok |-> FALSE, error |-> "RequestException"]
    ELSE [id |-> upd.id, status |-> outcome.status, ok |-> outcome.status < 400,
          response |-> IF outcome.json THEN "json" ELSE "raw"]

\* The entry that one iteration appends to results: from the response, or
\* from the RequestException that the except clause catches.
PutResult(upd, outcome) ==
    IF outcome.kind = "network_error"
    THEN [id |-> upd.id, status |-> 0, ok |-> FALSE, error |-> "RequestException"]
    ELSE [id |-> upd.id, status |-> outcome.status, ok |-> outcome.status < 300,
          response |-> IF outcome.json THEN "json" ELSE "raw"]

\* One iteration of "for upd in updates".
PutUpdate ==
    /\ pc = "put"
    /\ put_index <= Len(updates)
    /\ \E outcome \in PutOutcomes :
          /\ remote_log' = Append(remote_log,
                                  [request |-> PutRequest(updates[put_index]),
                                   outcome |-> outcome])
          /\ results' = Append(results, PutResult(updates[put_index], outcome))
    /\ put_index' = put_index + 1
    /\ UNCHANGED <<pc, args, metafields, offset, all_results>>
    /\ UNCHANGED <<scraperVars, encoderVars, normalizerVars, markdownVars, plannerVars, htmlVars>>

\* return results
ExecutePutReturn ==
    /\ pc = "put"
    /\ put_index > Len(updates)
    /\ pc' = "put_done"
    /\ UNCHANGED <<scraperVars, encoderVars, normalizerVars, markdownVars, plannerVars, htmlVars,
                   gatewayVars>>

(***************************************************************************)
(* Specification SpecExecutor: execute_put_updates on lists of update      *)
(* instructions drawn from bounded sets, every remote outcome possible at  *)
(* every call.                                                             *)
(***************************************************************************)
PutInstructions ==
    { [id |-> 9001, value |-> <<"1", "2">>, value_type |-> "string"],
      [id |-> 9002, value |-> <<"8">>, value_type |-> "integer"] }

PutInstructionLists == SeqsUpTo(PutInstructions, MaxUpdates)

InitExecutor ==
    /\ pc = "put"
    /\ updates \in PutInstructionLists
    /\ put_index = 1 /\ results = <<>> /\ remote_log = <<>>
    /\ args = None /\ metafields = None /\ offset = 0 /\ all_results = None
    /\ product_gid = None /\ ids_map = None /\ inputs = None
    /\ EncoderIdle /\ NormalizerIdle /\ MarkdownIdle /\ HtmlIdle
    /\ ScraperIdle

NextExecutor == PutUpdate \/ ExecutePutReturn

SpecExecutor == InitExecutor /\ [][NextExecutor]_vars

(***************************************************************************)
(* Claims on execute_put_updates (SpecExecutor).                           *)
(***************************************************************************)
IsFailure(outcome) == outcome.kind = "network_error" \/ outcome.status >= 300

\* C16: execute_put_updates issues exactly one write attempt per
\* instruction, in list order and without retry: at every moment the
\* attempts made are those of the first instructions of the list, one
\* each, and there is exactly one result per attempt, in the same order,
\* with the instruction's id and a success flag that is true exactly for a
\* response with a status below 300; when the function returns, every
\* instruction has been attempted, whatever failed before it.
C16_PerItemIsolation ==
    pc \in {"put", "put_done"} =>
        /\ Len(remote_log) <= Len(updates)
        /\ Len(results) = Len(remote_log)
        /\ \A i \in 1..Len(remote_log) :
              /\ remote_log[i].request.method = "PUT"
              /\ remote_log[i].request.metafield_id = updates[i].id
              /\ remote_log[i].request.payload.metafield.value = updates[i].value
              /\ results[i].id = updates[i].id
              /\ results[i].ok <=> ~IsFailure(remote_log[i].outcome)
        /\ pc = "put_done" => Len(remote_log) = Len(updates)

\* Three instructions: a network error, then a status 500 with a body that
\* is no JSON, then a success.
C16_Witness ==
    /\ pc = "put_done"
    /\ Len(updates) = 3
    /\ remote_log[1].outcome.kind = "network_error"
    /\ remote_log[2].outcome = [kind |-> "response", status |-> 500, json |-> FALSE]
    /\ remote_log[3].outcome.status = 200
    /\ <<results[1].ok, results[2].ok, results[3].ok>> = <<FALSE, FALSE, TRUE>>

(***************************************************************************)
(* Remote gateway: the batched creation calls, metafields_set of the       *)
(* updater and the batch loop of the upsert endpoint.                      *)
(***************************************************************************)
\* Most creation instructions in a list (two full batches and one more).
MaxInputs == 51

\* The size of a batch.
BatchSize == 25

\* lst[i:j]
Slice(lst, i, j) == SubSeq(lst, i + 1, IF j < Len(lst) THEN j ELSE Len(lst))

\* Faulty variant of ChunkAt: a slice runs one item into the next one.
ChunkAtOverlapping(lst, i) == Slice(lst, i, i + BatchSize + 1)

\* The slice that chunks(lst, 25) yields for the i of its range, which is
\* also the slice of _chunk_list for that i.
ChunkAt(lst, i) == Slice(lst, i, i + BatchSize)

\* _chunk_list(items): [items[i:i + size] for i in range(0, len(items), size)]
_chunk_list(items) ==
    [k \in 1..((Len(items) + BatchSize - 1) \div BatchSize) |->
        ChunkAt(items, (k - 1) * BatchSize)]

\* What the POST of a batch can come to.  body tells whether the response
\* parses as a JSON object, errors are the GraphQL errors of the object,
\* data tells whether its "data" is missing, null or an object, and
\* userErrors and created are what data.metafieldsSet holds.
BatchOutcome(kind, status, body, errors, d, userErrors, created) ==
    [kind |-> kind, status |-> status, body |-> body, errors |-> errors,
     data |-> d, userErrors |-> userErrors, created |-> created]

NetworkError == BatchOutcome("network_error", 0, "none", <<>>, "absent", <<>>, FALSE)
Created == BatchOutcome("response", 200, "object", <<>>, "object", <<>>, TRUE)
UserErrors ==
    BatchOutcome("response", 200, "object", <<>>, "object", <<"INVALID_VALUE">>, FALSE)
GraphqlErrors ==
    BatchOutcome("response", 200, "object", <<"THROTTLED">>, "absent", <<>>, FALSE)
GraphqlErrorsNullData ==
    BatchOutcome("response", 200, "object", <<"THROTTLED">>, "null", <<>>, FALSE)
BadGatewayPage == BatchOutcome("response", 502, "not_json", <<>>, "absent", <<>>, FALSE)
ServerErrorObject == BatchOutcome("response", 500, "object", <<>>, "absent", <<>>, FALSE)

BatchOutcomes ==
    { NetworkError, Created, UserErrors, GraphqlErrors, GraphqlErrorsNullData,
      BadGatewayPage, ServerErrorObject }

PostRequest(batch) == [method |-> "POST", batch |-> batch]

\* The body of the loop of metafields_set for one batch: whether an
\* exception leaves the function, and all_results after it.
SetBatchStep(batch, outcome, acc) ==
    IF outcome.kind = "network_error"
    THEN [raised |-> TRUE, all_results |-> acc]
    ELSE IF outcome.body = "not_json"
    THEN [raised |-> FALSE,
          all_results |-> [acc EXCEPT !.errors =
                              Append(@, [status |-> outcome.status, raw |-> "text"])]]
    ELSE LET with_errors == [acc EXCEPT !.errors = @ \o outcome.errors]
         IN  IF outcome.data = "null"
             THEN [raised |-> TRUE, all_results |-> with_errors]
             ELSE [raised |-> FALSE,
                   all_results |->
                       [updated |-> with_errors.updated
                                    \o (IF outcome.created THEN batch ELSE <<>>),
                        errors |-> with_errors.errors \o outcome.userErrors]]

\* One iteration of "for batch in chunks(inputs, 25)" in metafields_set.
MetafieldsSetBatch ==
    /\ pc = "set"
    /\ offset < Len(inputs)
    /\ \E outcome \in BatchOutcomes :
          LET batch == ChunkAt(inputs, offset)
              step == SetBatchStep(batch, outcome, all_results)
          IN  /\ remote_log' = Append(remote_log, [request |-> PostRequest(batch),
                                                   outcome |-> outcome])
              /\ all_results' = step.all_results
              /\ pc' = IF step.raised THEN "set_raised" ELSE "set"
              /\ offset' = IF step.raised THEN offset ELSE offset + BatchSize
    /\ UNCHANGED <<args, metafields, put_index, results>>
    /\ UNCHANGED <<scraperVars, encoderVars, normalizerVars, markdownVars, plannerVars, htmlVars>>

\* return all_results
MetafieldsSetReturn ==
    /\ pc = "set"
    /\ offset >= Len(inputs)
    /\ pc' = "set_done"
    /\ UNCHANGED <<scraperVars, encoderVars, normalizerVars, markdownVars, plannerVars, htmlVars,
                   gatewayVars>>

\* graphql_admin_query for one batch, then the body of the endpoint's loop:
\* whether an exception leaves the loop, and the items and errors after it.
UpsertBatchStep(batch, outcome, acc) ==
    IF \/ outcome.kind = "network_error"
       \/ outcome.status >= 400
       \/ outcome.body = "not_json"
       \/ outcome.errors # <<>>
       \/ outcome.data = "null"
    THEN [raised |-> TRUE, all_results |-> acc]
    ELSE [raised |-> FALSE,
          all_results |->
              [updated |-> acc.updated
                           \o (IF outcome.data = "object" /\ outcome.created
                               THEN batch ELSE <<>>),
               errors |-> acc.errors
                          \o (IF outcome.data = "object"
                              THEN outcome.userErrors ELSE <<>>)]]

\* One iteration of "for batch in batches" in productos_metafields_upsert.
UpsertBatch ==
    /\ pc = "upsert"
    /\ offset < Len(inputs)
    /\ \E outcome \in BatchOutcomes :
          LET batch == _chunk_list(inputs)[(offset \div BatchSize) + 1]
              step == UpsertBatchStep(batch, outcome, all_results)
          IN  /\ remote_log' = Append(remote_log, [request |-> PostRequest(batch),
                                                   outcome |-> outcome])
              /\ all_results' = step.all_results
              /\ pc' = IF step.raised THEN "upsert_raised" ELSE "upsert"
              /\ offset' = IF step.raised THEN offset ELSE offset + BatchSize
    /\ UNCHANGED <<args, metafields, put_index, results>>
    /\ UNCHANGED <<scraperVars, encoderVars, normalizerVars, markdownVars, plannerVars, htmlVars>>

\* return JSONResponse(...)
UpsertReturn ==
    /\ pc = "upsert"
    /\ offset >= Len(inputs)
    /\ pc' = "upsert_done"
    /\ UNCHANGED <<scraperVars, encoderVars, normalizerVars, markdownVars, plannerVars, htmlVars,
                   gatewayVars>>

(***************************************************************************)
(* Specification SpecBatches: the two batch loops on lists of creation     *)
(* instructions of every length up to MaxInputs, every remote outcome      *)
(* possible at every call.                                                 *)
(***************************************************************************)
\* The list of the first n creation instructions, told apart by their key.
CreationInputs(n) == [i \in 1..n |-> [key |-> i]]

InitBatches ==
    /\ pc \in {"set", "upsert"}
    /\ inputs \in { CreationInputs(n) : n \in 0..MaxInputs }
    /\ offset = 0 /\ remote_log = <<>>
    /\ all_results = [updated |-> <<>>, errors |-> <<>>]
    /\ args = None /\ metafields = None /\ put_index = 0 /\ results = <<>>
    /\ product_gid = None /\ ids_map = None /\ updates = None
    /\ EncoderIdle /\ NormalizerIdle /\ MarkdownIdle /\ HtmlIdle
    /\ ScraperIdle

NextBatches ==
    \/ MetafieldsSetBatch
    \/ MetafieldsSetReturn
    \/ UpsertBatch
    \/ UpsertReturn

SpecBatches == InitBatches /\ [][NextBatches]_vars

(***************************************************************************)
(* Claims on the batch loops (SpecBatches).                                *)
(***************************************************************************)
\* The batches sent so far, in send order.
Sent == [k \in 1..Len(remote_log) |-> remote_log[k].request.batch]

BatchLoopReturned == pc \in {"set_done", "upsert_done"}

IsBoundaryFailure(outcome) ==
    \/ outcome.kind = "network_error"
    \/ outcome.status >= 300
    \/ outcome.body = "not_json"

FailedBatches == { k \in 1..Len(remote_log) : IsBoundaryFailure(remote_log[k].outcome) }

\* C17: in metafields_set and in the batch loop of the upsert endpoint no
\* exception leaves the call, whatever a batch comes to (network error,
\* non-success status, malformed JSON): every batch is still sent, and the
\* returned structure has an error entry for every failed batch.
C17_BoundaryFailuresAreResults ==
    /\ pc \notin {"set_raised", "upsert_raised"}
    /\ BatchLoopReturned =>
        /\ Len(Sent) = (Len(inputs) + 24) \div 25
        /\ Len(all_results.errors) >= Cardinality(FailedBatches)

\* C18: the batches sent are consecutive slices of the list from its start:
\* their concatenation in send order is the part of the list sent so far;
\* every batch has between 1 and 25 items and only the batch that ends the
\* list has fewer than 25; a call that returns has sent the whole list in
\* ceil(n/25) batches, and none for the empty list.
C18_BatchingInto25 ==
    pc \in {"set", "set_done", "set_raised", "upsert", "upsert_done", "upsert_raised"} =>
        /\ Concat(Sent) = SubSeq(inputs, 1, Len(Concat(Sent)))
        /\ \A k \in 1..Len(Sent) :
              /\ Len(Sent[k]) \in 1..25
              /\ Len(Sent[k]) < 25 =>
                    k = Len(Sent) /\ Concat(Sent) = inputs
        /\ BatchLoopReturned =>
              /\ Concat(Sent) = inputs
              /\ Len(Sent) * 25 >= Len(inputs)
              /\ Len(Sent) * 25 < Len(inputs) + 25
              /\ inputs = <<>> => Sent = <<>>

\* A list of 51 sent by metafields_set as 25, 25 and 1.
C18_Witness ==
    /\ pc = "set_done"
    /\ Len(inputs) = 51
    /\ Len(Sent) = 3
    /\ Len(Sent[1]) = 25 /\ Len(Sent[2]) = 25
    /\ Sent[3] = << [key |-> 51] >>

(***************************************************************************)
(* build_id_map.  A metafield of the remote listing is a record; a field   *)
(* that the listing leaves out or gives as null is a field the record      *)
(* does not have.                                                          *)
(***************************************************************************)
\* Most metafields in a listing.
MaxMetafields == 3

\* m.get(f) is truthy: the field is there and is not the empty value.
HasField(m, f, empty) == f \in DOMAIN m /\ m[f] # empty

\* m.get("namespace") or ""
NamespaceOf(m) == IF HasField(m, "namespace", "") THEN m["namespace"] ELSE ""

\* Faulty variant of IdsByKey: the first entry of a key stays, whatever its
\* namespace.
RECURSIVE IdsByKeyFirstStays(_, _)
IdsByKeyFirstStays(mfs, ids_by_key) ==
    IF mfs = <<>> THEN ids_by_key
    ELSE LET m == Head(mfs)
         IN  IF ~HasField(m, "key", "") \/ ~HasField(m, "id", 0)
             THEN IdsByKeyFirstStays(Tail(mfs), ids_by_key)
             ELSE IF m["key"] \notin DOMAIN ids_by_key
             THEN IdsByKeyFirstStays(Tail(mfs),
                      DictSet(ids_by_key, m["key"], <<m["id"], NamespaceOf(m)>>))
             ELSE IdsByKeyFirstStays(Tail(mfs), ids_by_key)

\* The loop of build_id_map: ids_by_key after the metafields mfs.
RECURSIVE IdsByKey(_, _)
IdsByKey(mfs, ids_by_key) ==
    IF mfs = <<>> THEN ids_by_key
    ELSE LET m == Head(mfs)
         IN  IF ~HasField(m, "key", "") \/ ~HasField(m, "id", 0)
             THEN IdsByKey(Tail(mfs), ids_by_key)
             ELSE IF m["key"] \notin DOMAIN ids_by_key
             THEN IdsByKey(Tail(mfs),
                      DictSet(ids_by_key, m["key"], <<m["id"], NamespaceOf(m)>>))
             ELSE IF ids_by_key[m["key"]][2] # "custom" /\ NamespaceOf(m) = "custom"
             THEN IdsByKey(Tail(mfs),
                      DictSet(ids_by_key, m["key"], <<m["id"], NamespaceOf(m)>>))
             ELSE IdsByKey(Tail(mfs), ids_by_key)

\* {k: v[0] for k, v in ids_by_key.items()}
build_id_map(mfs) ==
    LET ids_by_key == IdsByKey(mfs, EmptyDict)
    IN  [k \in DOMAIN ids_by_key |-> ids_by_key[k][1]]

\* ids_map = build_id_map(metafields)
BuildIdMap ==
    /\ pc = "idmap"
    /\ ids_map' = build_id_map(metafields)
    /\ pc' = "idmap_done"
    /\ UNCHANGED <<product_gid, updates, inputs>>
    /\ UNCHANGED <<scraperVars, encoderVars, normalizerVars, markdownVars, htmlVars, gatewayVars>>

(***************************************************************************)
(* Specification SpecIdMap: build_id_map on listings drawn from bounded    *)
(* sets.                                                                   *)
(***************************************************************************)
\* Entries of one key in the two namespaces and without a namespace, of
\* another key, and entries without key or identifier.
MetafieldEntries ==
    { [key |-> "ancho", id |-> 1, namespace |-> "global"],
      [key |-> "ancho", id |-> 2, namespace |-> "custom"],
      [key |-> "ancho", id |-> 3, namespace |-> "custom"],
      [key |-> "ancho", id |-> 4],
      [key |-> "piezas", id |-> 5, namespace |-> "global"],
      [key |-> "piezas", namespace |-> "custom"],
      [id |-> 6, namespace |-> "custom"],
      [key |-> "", id |-> 7, namespace |-> "custom"],
      [key |-> "piezas", id |-> 0, namespace |-> "custom"] }

InitIdMap ==
    /\ pc = "idmap"
    /\ metafields \in SeqsUpTo(MetafieldEntries, MaxMetafields)
    /\ ids_map = None
    /\ product_gid = None /\ updates = None /\ inputs = None
    /\ args = None /\ put_index = 0 /\ results = <<>>
    /\ offset = 0 /\ all_results = None /\ remote_log = <<>>
    /\ EncoderIdle /\ NormalizerIdle /\ MarkdownIdle /\ HtmlIdle
    /\ ScraperIdle

NextIdMap == BuildIdMap

SpecIdMap == InitIdMap /\ [][NextIdMap]_vars

(***************************************************************************)
(* Claims on build_id_map (SpecIdMap).                                     *)
(***************************************************************************)
\* The entries of the listing that have a key and an identifier.
UsableEntries ==
    { i \in 1..Len(metafields) :
        /\ "key" \in DOMAIN metafields[i] /\ metafields[i].key # ""
        /\ "id" \in DOMAIN metafields[i] /\ metafields[i].id # 0 }

EntriesOf(k) == { i \in UsableEntries : metafields[i].key = k }

CustomEntriesOf(k) ==
    { i \in EntriesOf(k) :
        "namespace" \in DOMAIN metafields[i] /\ metafields[i].namespace = "custom" }

First(S) == CHOOSE i \in S : \A j \in S : i <= j

\* C19: build_id_map maps each key to the identifier of the first entry of
\* that key in the namespace custom when there is one, otherwise to the
\* identifier of the first entry of that key; an entry without a key or
\* without an identifier adds nothing, and the entries after the chosen one
\* do not change the result.
C19_IdMapConstruction ==
    pc = "idmap_done" =>
        /\ DOMAIN ids_map = { metafields[i].key : i \in UsableEntries }
        /\ \A k \in DOMAIN ids_map :
              ids_map[k] = IF CustomEntriesOf(k) # {}
                           THEN metafields[First(CustomEntriesOf(k))].id
                           ELSE metafields[First(EntriesOf(k))].id

\* The key first in another namespace, then twice in custom: the first
\* custom entry gives the identifier.
C19_Witness ==
    /\ pc = "idmap_done"
    /\ metafields = << [key |-> "ancho", id |-> 1, namespace |-> "global"],
                       [key |-> "ancho", id |-> 2, namespace |-> "custom"],
                       [key |-> "ancho", id |-> 3, namespace |-> "custom"] >>
    /\ DOMAIN ids_map = {"ancho"}
    /\ ids_map["ancho"] = 2

(***************************************************************************)
(* main of the metafield updater.  The run reads its arguments and the     *)
(* input file, parses the content, gets the identifier map (from the file  *)
(* of --ids-json, or from the remote listing after creating definitions    *)
(* and missing values), generates the updates and executes them.  A        *)
(* SystemExit or an exception that no handler catches ends the run at      *)
(* once.                                                                   *)
(***************************************************************************)
\* What the GET of fetch_metafields_ids can come to: a network error, a
\* status that raise_for_status() raises for, a body that resp.json()
\* cannot parse, or a listing.
Listed(mfs) == [kind |-> "response", status |-> 200, body |-> "object", metafields |-> mfs]

FetchOutcomes ==
    { [kind |-> "network_error", status |-> 0, body |-> "none", metafields |-> <<>>],
      [kind |-> "response", status |-> 404, body |-> "object", metafields |-> <<>>],
      [kind |-> "response", status |-> 200, body |-> "not_json", metafields |-> <<>>],
      Listed(<<>>),
      Listed(<< [key |-> "ancho", id |-> IdOf("ancho"), namespace |-> "custom"],
                [key |-> "piezas", id |-> IdOf("piezas"), namespace |-> "custom"] >>) }

\* fetch_metafields_ids raises: requests.get, raise_for_status() or
\* resp.json() does, and nothing catches it.
FetchRaises(outcome) ==
    \/ outcome.kind = "network_error"
    \/ outcome.status >= 400
    \/ outcome.body = "not_json"

GetRequest == [method |-> "GET", resource |-> "metafields"]

\* openai_input.get("content") or ""
ContentOf(a) == IF a.content = None THEN <<>> ELSE a.content

\* From the parsing of the arguments to the call of parse_openai_markdown.
MainStart ==
    /\ pc = "main"
    /\ IF ~args.credentials THEN pc' = "exit_credentials" /\ UNCHANGED content_md
       ELSE /\ content_md' = ContentOf(args)
            /\ pc' = IF Strip(ContentOf(args)) = <<>> THEN "exit_blank" ELSE "markdown"
    /\ UNCHANGED <<bullets, faq_answers, details, sec4_lines, video_title,
                   video_body_lines, first_bullet_processed, parsed>>
    /\ UNCHANGED <<scraperVars, encoderVars, normalizerVars, plannerVars, htmlVars, gatewayVars>>

\* The identifier map that the file of --ids-json holds when it holds one.
SuppliedIdsMap == [k \in {"ancho", "piezas"} |-> IdOf(k)]

\* if args.ids_json: the file's content is the map, unless it is no dict.
MainLoadIdsJson ==
    /\ pc = "planner"
    /\ args.ids_json # "none"
    /\ IF args.ids_json = "mapping"
       THEN ids_map' = SuppliedIdsMap /\ pc' = "generate"
       ELSE UNCHANGED ids_map /\ pc' = "exit_ids"
    /\ UNCHANGED <<product_gid, updates, inputs>>
    /\ UNCHANGED <<scraperVars, encoderVars, normalizerVars, markdownVars, htmlVars, gatewayVars>>

\* Faulty variant of MainFetchIds: the listing fetched after the creation
\* of the missing values is not made the identifier map.
MainFetchIdsKeepMap ==
    /\ \/ pc = "planner" /\ args.ids_json = "none"
       \/ pc = "set_done"
    /\ \E outcome \in FetchOutcomes :
          /\ remote_log' = Append(remote_log, [request |-> GetRequest,
                                               outcome |-> outcome])
          /\ IF FetchRaises(outcome)
             THEN pc' = "fetch_raised" /\ UNCHANGED <<metafields, ids_map>>
             ELSE /\ metafields' = outcome.metafields
                  /\ ids_map' = IF pc = "planner"
                                THEN build_id_map(outcome.metafields)
                                ELSE ids_map
                  /\ pc' = IF pc = "planner" THEN "defs" ELSE "generate"
    /\ UNCHANGED <<product_gid, updates, inputs>>
    /\ UNCHANGED <<args, put_index, results, offset, all_results>>
    /\ UNCHANGED <<scraperVars, encoderVars, normalizerVars, markdownVars, htmlVars>>

\* metafields = fetch_metafields_ids(...); ids_map = build_id_map(metafields),
\* before the definitions (from "planner") and after the creation of the
\* missing values (from "set_done").
MainFetchIds ==
    /\ \/ pc = "planner" /\ args.ids_json = "none"
       \/ pc = "set_done"
    /\ \E outcome \in FetchOutcomes :
          /\ remote_log' = Append(remote_log, [request |-> GetRequest,
                                               outcome |-> outcome])
          /\ IF FetchRaises(outcome)
             THEN pc' = "fetch_raised" /\ UNCHANGED <<metafields, ids_map>>
             ELSE /\ metafields' = outcome.metafields
                  /\ ids_map' = build_id_map(outcome.metafields)
                  /\ pc' = IF pc = "planner" THEN "defs" ELSE "generate"
    /\ UNCHANGED <<product_gid, updates, inputs>>
    /\ UNCHANGED <<args, put_index, results, offset, all_results>>
    /\ UNCHANGED <<scraperVars, encoderVars, normalizerVars, markdownVars, htmlVars>>

\* def_results = ensure_metafield_definitions(...): its POSTs all bring a
\* response that the function can read, or one of them raises (a network
\* error, or a "data" that is null) and nothing catches it.
MainEnsureDefinitions ==
    /\ pc = "defs"
    /\ \E outcome \in {Created, UserErrors, BadGatewayPage, NetworkError,
                       GraphqlErrorsNullData} :
          /\ remote_log' = Append(remote_log,
                                  [request |-> [method |-> "POST",
                                                resource |-> "definitions"],
                                   outcome |-> outcome])
          /\ pc' = IF outcome \in {NetworkError, GraphqlErrorsNullData}
                   THEN "defs_raised" ELSE "missing"
    /\ UNCHANGED <<args, metafields, put_index, results, offset, all_results>>
    /\ UNCHANGED <<scraperVars, encoderVars, normalizerVars, markdownVars, plannerVars, htmlVars>>

\* missing_inputs = build_missing_metafields_inputs(...); if missing_inputs:
\* mf_results = metafields_set(...)
MainBuildMissing ==
    /\ pc = "missing"
    /\ inputs' = build_missing_metafields_inputs(product_gid, ids_map, parsed)
    /\ pc' = IF inputs' # <<>> THEN "set" ELSE "generate"
    /\ offset' = 0
    /\ all_results' = [updated |-> <<>>, errors |-> <<>>]
    /\ UNCHANGED <<product_gid, ids_map, updates>>
    /\ UNCHANGED <<args, metafields, put_index, results, remote_log>>
    /\ UNCHANGED <<scraperVars, encoderVars, normalizerVars, markdownVars, htmlVars>>

\* updates = generate_put_updates(ids_map, parsed); the file of the updates
\* is written; if updates: results = execute_put_updates(...)
MainGenerate ==
    /\ pc = "generate"
    /\ updates' = generate_put_updates(ids_map, parsed)
    /\ pc' = IF updates' # <<>> THEN "put" ELSE "main_end"
    /\ put_index' = 1
    /\ results' = <<>>
    /\ UNCHANGED <<product_gid, ids_map, inputs>>
    /\ UNCHANGED <<args, metafields, offset, all_results, remote_log>>
    /\ UNCHANGED <<scraperVars, encoderVars, normalizerVars, markdownVars, htmlVars>>

\* The results are counted and saved; main returns.
MainFinish ==
    /\ pc = "put_done"
    /\ pc' = "main_end"
    /\ UNCHANGED <<scraperVars, encoderVars, normalizerVars, markdownVars, plannerVars, htmlVars,
                   gatewayVars>>

(***************************************************************************)
(* Specification SpecMain: runs of main on arguments drawn from bounded    *)
(* sets, every remote outcome possible at every call.                      *)
(***************************************************************************)
\* The numeric scenario: a width and a number of pieces.
NumericDoc ==
    MdHeading("3", "Detalles")
    \o BulletPrefix \o Bold(<<"Ancho", ":">>) \o <<" ", "1", "2", " ", "cm", "\n">>
    \o BulletPrefix \o Bold(<<"Piezas", ":">>)
    \o <<" ", "1", "5", "0", " ", "pzas", "\n">>

\* The content of the input file: no "content", an empty one, a blank one,
\* a document without sections, the numeric scenario, a title only.
MainContents ==
    { None, <<>>, <<" ", "\n">>, <<"a", ".", "\n">>, NumericDoc,
      MdHeading("4", "Video") \o BulletPrefix \o Bold(<<"T">>) }

MainArgs ==
    [credentials : BOOLEAN, content : MainContents,
     ids_json : {"none", "mapping", "list"}]

InitMain ==
    /\ pc = "main"
    /\ args \in MainArgs
    /\ product_gid \in ProductGids
    /\ ids_map = None /\ updates = None /\ inputs = None
    /\ metafields = None /\ put_index = 0 /\ results = <<>>
    /\ offset = 0 /\ all_results = None /\ remote_log = <<>>
    /\ EncoderIdle /\ NormalizerIdle /\ MarkdownIdle /\ HtmlIdle
    /\ ScraperIdle

NextMain ==
    \/ MainStart
    \/ ParseSections
    \/ ScanVideoLine
    \/ ParseReturn
    \/ MainLoadIdsJson
    \/ MainFetchIds
    \/ MainEnsureDefinitions
    \/ MainBuildMissing
    \/ MetafieldsSetBatch
    \/ MetafieldsSetReturn
    \/ MainGenerate
    \/ PutUpdate
    \/ ExecutePutReturn
    \/ MainFinish

SpecMain == InitMain /\ [][NextMain]_vars

(***************************************************************************)
(* Claims on main (SpecMain).                                              *)
(***************************************************************************)
\* The run has ended before its end, by SystemExit or by an exception.
RunAborted ==
    pc \in {"exit_credentials", "exit_blank", "exit_ids",
            "fetch_raised", "defs_raised", "set_raised"}

\* C20: a run of main aborts only when the content of the input is empty or
\* blank, or when the supplied identifier map is not a mapping; a failed
\* remote call never ends the run.
C20_RunAbortConditions ==
    RunAborted =>
        \/ Strip(ContentOf(args)) = <<>>
        \/ args.ids_json = "list"


(***************************************************************************)
(* Specification SpecScan: the parser on documents that hold a section 4   *)
(* only, drawn from a wider set of line forms than Spec's, then the        *)
(* planner's two functions on the result.                                  *)
(***************************************************************************)
\* Most lines in a section 4 of SpecScan.
MaxScanLines == 3

\* Lines of section 4: bold-only bullets, body lines, Body markers, bulleted
\* or not, Title-marker lines in the three layouts, bulleted or not, an
\* upper-case Title, nested bullets with and without a marker, a line
\* without bullet and an empty line.
ScanLineForms ==
    { BulletPrefix \o Bold(<<"Mi", " ", "Título">>),
      BulletPrefix \o Bold(<<"T">>),
      BulletPrefix \o <<"Uno", ".", " ", "Dos", ".">>,
      BulletPrefix \o Bold(<<"Body", ":">>),
      BulletPrefix \o Bold(<<"Body">>),
      BulletPrefix \o Bold(<<"Body">>) \o <<":">>,
      Bold(<<"Body", ":">>),
      BulletPrefix \o Bold(<<"Title", ":">>) \o <<" ", "X">>,
      BulletPrefix \o Bold(<<"Title">>) \o <<":", " ", "Y", " ">>,
      BulletPrefix \o Bold(<<"title">>) \o <<":", "Z">>,
      Bold(<<"Title", ":">>) \o <<" ", "X">>,
      BulletPrefix \o Bold(<<"TITLE", ":">>) \o <<" ", "X">>,
      BulletPrefix \o BulletPrefix \o Bold(<<"Video">>) \o <<" ", "v">>,
      BulletPrefix \o BulletPrefix \o <<"c">>,
      <<"b", ".">>,
      <<>> }

ScanDocs ==
    { MdHeading("4", "Video") \o Join(ls, <<"\n">>) :
          ls \in SeqsUpTo(ScanLineForms, MaxScanLines) }

InitScan ==
    /\ pc = "markdown"
    /\ content_md \in ScanDocs
    /\ product_gid \in ProductGids
    /\ ids_map = [k \in SchemaKeys |-> IdOf(k)]
    /\ bullets = <<>> /\ faq_answers = <<>> /\ details = <<>>
    /\ sec4_lines = <<>> /\ video_title = None /\ video_body_lines = <<>>
    /\ first_bullet_processed = FALSE
    /\ parsed = None /\ updates = None /\ inputs = None
    /\ EncoderIdle /\ NormalizerIdle /\ HtmlIdle /\ GatewayIdle
    /\ ScraperIdle

NextScan ==
    \/ ParseSections
    \/ ScanVideoLine
    \/ ParseReturn
    \/ GeneratePutUpdates
    \/ BuildMissingMetafieldsInputs

SpecScan == InitScan /\ [][NextScan]_vars

(***************************************************************************)
(* Claims on the section-4 scan (SpecScan).  The line rules are restated   *)
(* on the units of the line, without the patterns of the parser.           *)
(***************************************************************************)
\* The scan is about to read this line.
Scanning == pc = "scan" /\ sec4_lines # <<>>
ScannedLine == Strip(Head(sec4_lines))

TitleSpellings == {"Title", "title"}

\* Where the text starts that follows a Title marker at position i of l:
\* after "**Title:**", or after "**Title**" followed by ":", with or
\* without spaces around the colon; 0 when no marker stands at i.
TitleTextStart(l, i) ==
    IF ~(BoldAt(l, i) /\ At(l, i + 2) \in TitleSpellings) THEN 0
    ELSE IF At(l, i + 3) = ":" /\ BoldAt(l, i + 4) THEN i + 6
    ELSE IF BoldAt(l, i + 3)
            /\ At(l, i + 5 + RunLen(l, i + 5, Whitespace)) = ":"
         THEN i + 6 + RunLen(l, i + 5, Whitespace)
    ELSE 0

\* Positions of the Title markers of l that text follows.
TitleMarkers(l) ==
    { i \in 1..Len(l) :
          TitleTextStart(l, i) > 0 /\ Strip(From(l, TitleTextStart(l, i))) # <<>> }

IsTitleMarkerLine(l) == TitleMarkers(l) # {}

\* The trimmed text after the first Title marker of l.
TitleRemainder(l) ==
    LET i == CHOOSE i \in TitleMarkers(l) : \A j \in TitleMarkers(l) : i <= j
    IN Strip(From(l, TitleTextStart(l, i)))

\* C21: a line of section 4 that holds a Title marker in one of the three
\* layouts, followed by text, sets the video title to the trimmed text
\* after the marker, whatever the other rules say of the line, and adds
\* nothing to the body lines.
C21_TitleMarkerRule ==
    [][ Scanning /\ IsTitleMarkerLine(ScannedLine)
            => /\ video_title' = TitleRemainder(ScannedLine)
               /\ video_body_lines' = video_body_lines ]_vars

BodySpellings == {"Body", "body"}

\* A line that is a Body marker and nothing else: bold Body, with a colon
\* inside the bold run, after it, or without colon, behind any bullet
\* prefixes.
IsPureBodyMarker(l) ==
    \E b \in BodySpellings :
        StripBullets(l) \in { Bold(<<b>>), Bold(<<b, ":">>), Bold(<<b>>) \o <<":">> }

\* C22: a line of section 4 that is purely a Body marker leaves the video
\* title as it was and adds nothing to the body lines, wherever the line
\* stands and whether or not a title has been captured.
C22_BodyMarkerSilent ==
    [][ Scanning /\ IsPureBodyMarker(ScannedLine)
            => /\ video_title' = video_title
               /\ video_body_lines' = video_body_lines ]_vars

\* A bold run of c opens at position i with one of the words: the marker,
\* the word, and a closing marker with no asterisk in between.
BoldWordRunAt(c, i, words) ==
    /\ BoldAt(c, i)
    /\ At(c, i + 2) \in words
    /\ \E j \in (i + 3)..Len(c) :
           BoldAt(c, j) /\ \A k \in (i + 3)..(j - 1) : c[k] # "*"

ContainsBoldWord(c, words) == \E i \in 1..Len(c) : BoldWordRunAt(c, i, words)

\* C23: after any number of scanned lines, no entry of the body lines
\* holds a bold Title marker or a bold Video marker or starts with a bold
\* Body marker, whether its line was bulleted, at any depth, or not.
C23_MarkerFilter ==
    \A k \in 1..Len(video_body_lines) :
        /\ ~ContainsBoldWord(video_body_lines[k], TitleSpellings)
        /\ ~ContainsBoldWord(video_body_lines[k], {"Video", "video"})
        /\ ~BoldWordRunAt(video_body_lines[k], 1, BodySpellings)

\* The scan has read a Video marker under two bullet prefixes, a Body
\* marker without bullet and a doubly bulleted line, and kept the last.
C23_Witness ==
    /\ pc = "scan" /\ sec4_lines = <<>>
    /\ content_md = MdHeading("4", "Video")
          \o BulletPrefix \o BulletPrefix \o Bold(<<"Video">>) \o <<" ", "v", "\n">>
          \o Bold(<<"Body", ":">>) \o <<"\n">>
          \o BulletPrefix \o BulletPrefix \o <<"c">>
    /\ video_body_lines = << <<"c">> >>

\* What the ordinary line rule makes of the body lines: the line without
\* its bullet prefixes is appended unless it is empty or holds a marker.
OrdinaryBodyLines(l, body_lines) ==
    LET c == StripBullets(l)
    IN IF /\ c # <<>>
          /\ ~ContainsBoldWord(c, TitleSpellings)
          /\ ~ContainsBoldWord(c, {"Video", "video"})
          /\ ~BoldWordRunAt(c, 1, BodySpellings)
       THEN Append(body_lines, c)
       ELSE body_lines

\* C24: once a title has been captured, a bold-only bullet leaves the title
\* as it is and is handled as an ordinary body line, and a line that
\* changes the title is a Title-marker line.
C24_BoldOnlyTitleOnce ==
    [][ Scanning /\ video_title # None
            => /\ IsSingleBoldRun(ScannedLine)
                    => /\ video_title' = video_title
                       /\ video_body_lines'
                              = OrdinaryBodyLines(ScannedLine, video_body_lines)
               /\ video_title' # video_title => IsTitleMarkerLine(ScannedLine)
      ]_vars

\* A bold-only bullet gave the title and a second one went to the body.
C24_Witness ==
    /\ pc = "scan" /\ sec4_lines = <<>>
    /\ content_md = MdHeading("4", "Video")
          \o BulletPrefix \o Bold(<<"Mi", " ", "Título">>) \o <<"\n">>
          \o BulletPrefix \o Bold(<<"T">>)
    /\ video_title = <<"Mi", " ", "Título">>
    /\ video_body_lines = << Bold(<<"T">>) >>

\* The lines of a str: what stands between its line breaks.
RECURSIVE LinesOf(_)
LinesOf(s) ==
    IF NextNewline(s, 1) = 0 THEN <<s>>
    ELSE <<SubSeq(s, 1, NextNewline(s, 1) - 1)>>
         \o LinesOf(From(s, NextNewline(s, 1) + 1))

\* The updates planned for the sec5_body field.
BodyUpdates ==
    { i \in 1..Len(updates) : updates[i].id = ids_map["sec5_body"] }

\* C30: the video body the parser returns is None or a non-empty str none
\* of whose lines is empty, and the rich-text document planned for
\* sec5_body has one or two paragraphs.
C30_VideoBodyShape ==
    /\ AfterParse /\ parsed.video_body # None
           => /\ parsed.video_body # <<>>
              /\ \A k \in 1..Len(LinesOf(parsed.video_body)) :
                     Strip(LinesOf(parsed.video_body)[k]) # <<>>
    /\ pc \in {"updates", "planned"}
           => /\ BodyUpdates # {} <=> parsed.video_body # None
              /\ \A i \in BodyUpdates :
                     Len(updates[i].value.json.children) \in {1, 2}

\* Two body lines with an empty line between them in the source: the
\* body has two lines and the planned document two paragraphs.
C30_Witness ==
    /\ pc = "updates"
    /\ content_md = MdHeading("4", "Video")
          \o BulletPrefix \o <<"Uno", ".", " ", "Dos", ".", "\n", "\n", "b", ".">>
    /\ parsed.video_body = <<"Uno", ".", " ", "Dos", ".", "\n", "b", ".">>
    /\ \E i \in BodyUpdates : Len(updates[i].value.json.children) = 2

(***************************************************************************)
(* Claims on the Details and Video sections and on the section tracking    *)
(* of the HTML section parser (SpecHtml).                                  *)
(***************************************************************************)
\* The scan of parse_content is about to read this line.
ScanningHtml == pc = "html" /\ html_lines # <<>>
HtmlLine == Head(html_lines)
HtmlItem == Strip(From(HtmlLine, 3))

\* An item of the form key: value: text without colon, a colon, and then
\* at least one more unit.
IsKeyValue(item) ==
    \E i \in 2..(Len(item) - 1) :
        item[i] = ":" /\ \A m \in 1..(i - 1) : item[m] # ":"

\* The lines kept under the overflow key of a mapping, in order.
Overflow(d) ==
    IF OtrosKey \in DOMAIN d /\ d[OtrosKey].list THEN d[OtrosKey].v ELSE <<>>

\* C25: every bulleted line of the Details section that is not of the form
\* key: value is added, in document order, to the lines kept under the
\* overflow key of the details mapping, and no other line changes them, so
\* that none of them is lost.
C25_DetailsOverflow ==
    [][ ScanningHtml
            => IF /\ section = <<"detalles">>
                  /\ StartsWith(HtmlLine, BulletPrefix)
                  /\ ~IsKeyValue(HtmlItem)
               THEN Overflow(data'.detalles_tecnicos)
                        = Append(Overflow(data.detalles_tecnicos), HtmlItem)
               ELSE Overflow(data'.detalles_tecnicos)
                        = Overflow(data.detalles_tecnicos) ]_vars

\* C26: parse_content never raises: the scan is always at a line or has
\* returned its result.
C26_HtmlNeverRaises == pc \in {"html_start", "html", "html_done"}

\* The lines of the content block and those the scan has read so far.
AllHtmlLines == StrippedLines(strip_tags(content_html))
ScannedHtml ==
    SubSeq(AllHtmlLines, 1, Len(AllHtmlLines) - Len(html_lines))

SectionKeywords == {"viñetas", "faq", "detalles", "video"}

\* The keywords a line names as a '### ' heading.
KeywordsOf(line) ==
    IF StartsWith(line, HeadingPrefix)
    THEN { k \in SectionKeywords : Contains(Lower(line), k) }
    ELSE {}

\* The positions of the headings that name a section.
Recognised(ls) == { i \in 1..Len(ls) : KeywordsOf(ls[i]) # {} }

\* The current section is the one of the most recent such heading read,
\* None before the first.
SectionIsMostRecent ==
    LET rec == Recognised(ScannedHtml)
    IN IF rec = {} THEN section = None
       ELSE LET last == CHOOSE i \in rec : \A j \in rec : j <= i
            IN section \in { <<k>> : k \in KeywordsOf(ScannedHtml[last]) }

\* Every field of data but f is left as it is.
OthersUnchanged(f) ==
    \A g \in {"vinetas", "faq", "detalles_tecnicos", "video_section"} \ {f} :
        data'[g] = data[g]

\* C27: during the scan the current section is the one named by the most
\* recent '### ' heading that holds a keyword; a heading without keyword
\* and every other line leave it unchanged; a bulleted line changes only
\* the part of the result that belongs to the current section and nothing
\* before the first recognised heading; other lines store nothing.
C27_SectionTracking ==
    [][ /\ pc = "html" => SectionIsMostRecent
        /\ ScanningHtml
             => /\ KeywordsOf(HtmlLine) = {} => section' = section
                /\ IF StartsWith(HtmlLine, BulletPrefix)
                   THEN /\ section = None => data' = data
                        /\ section = <<"viñetas">>
                             => /\ data'.vinetas = Append(data.vinetas, HtmlItem)
                                /\ OthersUnchanged("vinetas")
                        /\ section = <<"faq">>
                             => /\ Len(data'.faq) = Len(data.faq) + 1
                                /\ OthersUnchanged("faq")
                        /\ section = <<"detalles">>
                             => OthersUnchanged("detalles_tecnicos")
                        /\ section = <<"video">>
                             => OthersUnchanged("video_section")
                   ELSE data' = data ]_vars

\* A bullet before any heading, the heading of the bullets section and a
\* bullet under it: the first bullet is stored nowhere.
C27_Witness ==
    /\ pc = "html_done"
    /\ AllHtmlLines = << BulletPrefix \o <<"a">>,
                         Heading(<<"1", ".", " ", "Viñetas">>),
                         BulletPrefix \o <<"a", "?">> >>
    /\ section = <<"viñetas">>
    /\ data = [EmptyData EXCEPT !.vinetas = << <<"a", "?">> >>]

\* What a logged remote call is: the listing of the identifiers, the
\* creation of the definitions, a creation batch or a PUT.
CallKind(e) ==
    IF e.request.method = "GET" THEN "fetch"
    ELSE IF e.request.method = "PUT" THEN "put"
    ELSE IF "batch" \in DOMAIN e.request THEN "set"
    ELSE "defs"

Calls == [i \in 1..Len(remote_log) |-> CallKind(remote_log[i])]

CallsOf(kind) == { i \in 1..Len(Calls) : Calls[i] = kind }

\* The listing that the last fetch of the run returned.
LastListing ==
    LET i == CHOOSE i \in CallsOf("fetch") : \A j \in CallsOf("fetch") : j <= i
    IN remote_log[i].outcome.metafields

\* C28: without a supplied identifier map the remote calls come in the
\* order fetch, definitions, creation batches, fetch again, PUTs: the
\* first call is a fetch and the second the definitions, a batch follows
\* the definitions or a batch, the second fetch follows the last batch,
\* and a PUT follows the definitions, the second fetch or a PUT; batches
\* are only sent for a non-empty list of creation instructions, every
\* batch has been sent before the first PUT, and the updates are planned
\* from the identifiers of the last listing.  With a supplied map the only
\* calls are PUTs.  A PUT is only sent for a non-empty update list, and
\* the PUTs are those of the update list in order.
C28_CallOrder ==
    /\ args.ids_json = "none"
         => /\ \A i \in CallsOf("fetch") : i = 1 \/ (i >= 4 /\ Calls[i - 1] = "set")
            /\ \A i \in CallsOf("defs") : i = 2 /\ Calls[1] = "fetch"
            /\ \A i \in CallsOf("set") : i >= 3 /\ Calls[i - 1] \in {"defs", "set"}
            /\ \A i \in CallsOf("put") :
                   /\ i >= 3
                   /\ Calls[i - 1] \in {"defs", "fetch", "put"}
                   /\ CallsOf("set") # {}
                        => Cardinality(CallsOf("set")) * BatchSize >= Len(inputs)
            /\ CallsOf("set") # {} => Len(inputs) > 0
            /\ pc \in {"put", "put_done", "main_end"}
                 => updates = generate_put_updates(build_id_map(LastListing), parsed)
    /\ args.ids_json # "none" => \A i \in 1..Len(Calls) : Calls[i] = "put"
    /\ \A i \in CallsOf("put") :
           LET k == i - Len(Calls) + Cardinality(CallsOf("put"))
           IN /\ updates # <<>>
              /\ k \in 1..Len(updates)
              /\ remote_log[i].request = PutRequest(updates[k])

\* A run that fetched an empty listing, created the definitions and the
\* two missing values, fetched the two identifiers and sent two PUTs.
C28_Witness ==
    /\ pc = "main_end"
    /\ args.ids_json = "none"
    /\ Calls = <<"fetch", "defs", "set", "fetch", "put", "put">>
    /\ Len(inputs) = 2 /\ Len(updates) = 2

(***************************************************************************)
(* Carousel scraper: AliExpressHoverScraper.scrape_carousel                *)
(* (scraper_hover_carrusel.py).  The model follows the control flow of the *)
(* method and counts the calls of self.browser.close() and of              *)
(* self.playwright.stop().  What the page, the user and the disk answer is *)
(* chosen freely at every step.  A call of close() or stop() on an open    *)
(* browser returns; on a browser that has been closed already, or on a     *)
(* driver that has been stopped already, it returns or raises.             *)
(***************************************************************************)
\* Largest max_hovers argument.
MaxHovers == 2
\* Most thumbnails found on a page.
MaxThumbnails == 3
\* Most answers at the confirmation prompt that are neither yes nor no.
MaxPrompts == 2

\* await self.setup_browser(): the driver and the browser start, or the
\* call raises before the try block is entered.
SetupBrowser ==
    /\ pc = "scrape"
    /\ pc' \in {"navigate", "setup_raised"}
    /\ UNCHANGED scraperVars
    /\ UNCHANGED <<encoderVars, normalizerVars, markdownVars, plannerVars, htmlVars,
                   gatewayVars>>

\* if not await self.navigate_to_product(url): return False
NavigateToProduct ==
    /\ pc = "navigate"
    /\ \E loaded \in BOOLEAN :
          IF loaded THEN pc' = "confirm" /\ UNCHANGED pending
          ELSE pc' = "finally" /\ pending' = "False"
    /\ UNCHANGED <<max_hovers, thumbnails, hover_index, hover_count, prompts,
                   close_calls, stop_calls>>
    /\ UNCHANGED <<encoderVars, normalizerVars, markdownVars, plannerVars, htmlVars,
                   gatewayVars>>

\* One pass of the "while True" of the confirmation prompt: yes leaves the
\* loop, no closes the browser, stops the driver and returns False, any
\* other answer asks again, and input() can raise (end of input).
ConfirmPrompt ==
    /\ pc = "confirm"
    /\ \E answer \in {"s", "n", "other", "raises"} :
          CASE answer = "s" ->
                 /\ pc' = "capture"
                 /\ UNCHANGED <<prompts, close_calls, stop_calls, pending>>
            [] answer = "n" ->
                 /\ close_calls' = close_calls + 1
                 /\ stop_calls' = stop_calls + 1
                 /\ pending' = "False"
                 /\ pc' = "finally"
                 /\ UNCHANGED prompts
            [] answer = "other" ->
                 /\ prompts < MaxPrompts
                 /\ prompts' = prompts + 1
                 /\ UNCHANGED <<pc, close_calls, stop_calls, pending>>
            [] answer = "raises" ->
                 /\ pending' = "exception"
                 /\ pc' = "finally"
                 /\ UNCHANGED <<prompts, close_calls, stop_calls>>
    /\ UNCHANGED <<max_hovers, thumbnails, hover_index, hover_count>>
    /\ UNCHANGED <<encoderVars, normalizerVars, markdownVars, plannerVars, htmlVars,
                   gatewayVars>>

\* The two initial captures, then thumbnails = await
\* self.find_thumbnail_images(); if not thumbnails: return False
FindThumbnails ==
    /\ pc = "capture"
    /\ \/ \E found \in 0..MaxThumbnails :
             /\ thumbnails' = found
             /\ IF found = 0
                THEN pc' = "finally" /\ pending' = "False"
                ELSE pc' = "hover" /\ UNCHANGED pending
       \/ /\ pc' = "finally" /\ pending' = "exception"
          /\ UNCHANGED thumbnails
    /\ hover_index' = 0
    /\ UNCHANGED <<max_hovers, hover_count, prompts, close_calls, stop_calls>>
    /\ UNCHANGED <<encoderVars, normalizerVars, markdownVars, plannerVars, htmlVars,
                   gatewayVars>>

\* len(thumbnails[:max_hovers])
HoverLimit == IF thumbnails < max_hovers THEN thumbnails ELSE max_hovers

\* One iteration of "for i, thumbnail in enumerate(thumbnails[:max_hovers])":
\* the hover succeeds and the captures are taken, the hover fails, or a
\* call on the page raises.
HoverThumbnail ==
    /\ pc = "hover"
    /\ hover_index < HoverLimit
    /\ \E result \in {"hovered", "failed", "raises"} :
          /\ hover_count' = IF result = "hovered" THEN hover_count + 1
                            ELSE hover_count
          /\ IF result = "raises"
             THEN pc' = "finally" /\ pending' = "exception"
                  /\ UNCHANGED hover_index
             ELSE hover_index' = hover_index + 1 /\ UNCHANGED <<pc, pending>>
    /\ UNCHANGED <<max_hovers, thumbnails, prompts, close_calls, stop_calls>>
    /\ UNCHANGED <<encoderVars, normalizerVars, markdownVars, plannerVars, htmlVars,
                   gatewayVars>>

\* After the loop: the final capture, the report, the analysis and what
\* follows it; return True, unless one of them raises.
ReportAndReturn ==
    /\ pc = "hover"
    /\ hover_index >= HoverLimit
    /\ pending' \in {"True", "exception"}
    /\ pc' = "finally"
    /\ UNCHANGED <<max_hovers, thumbnails, hover_index, hover_count, prompts,
                   close_calls, stop_calls>>
    /\ UNCHANGED <<encoderVars, normalizerVars, markdownVars, plannerVars, htmlVars,
                   gatewayVars>>

\* finally: await self.browser.close(); await self.playwright.stop().
\* When close() raises, stop() is not called.
FinallyClose ==
    /\ pc = "finally"
    /\ \E close_raises, stop_raises \in BOOLEAN :
          /\ close_raises => close_calls >= 1
          /\ stop_raises => stop_calls >= 1 /\ ~close_raises
          /\ close_calls' = close_calls + 1
          /\ stop_calls' = IF close_raises THEN stop_calls ELSE stop_calls + 1
          /\ pc' = IF close_raises \/ stop_raises \/ pending = "exception"
                   THEN "scrape_raised" ELSE "scrape_done"
    /\ UNCHANGED <<max_hovers, thumbnails, hover_index, hover_count, prompts,
                   pending>>
    /\ UNCHANGED <<encoderVars, normalizerVars, markdownVars, plannerVars, htmlVars,
                   gatewayVars>>

(***************************************************************************)
(* Specification SpecScraper: calls of scrape_carousel for every           *)
(* max_hovers up to MaxHovers.                                             *)
(***************************************************************************)
InitScraper ==
    /\ pc = "scrape"
    /\ max_hovers \in 0..MaxHovers
    /\ thumbnails = 0 /\ hover_index = 0 /\ hover_count = 0
    /\ prompts = 0 /\ close_calls = 0 /\ stop_calls = 0 /\ pending = "none"
    /\ EncoderIdle /\ NormalizerIdle /\ MarkdownIdle /\ PlannerIdle
    /\ HtmlIdle /\ GatewayIdle

NextScraper ==
    \/ SetupBrowser
    \/ NavigateToProduct
    \/ ConfirmPrompt
    \/ FindThumbnails
    \/ HoverThumbnail
    \/ ReportAndReturn
    \/ FinallyClose

SpecScraper == InitScraper /\ [][NextScraper]_vars

\* C29: when scrape_carousel has ended after setup_browser succeeded, by a
\* return or by an exception, the browser has been closed exactly once and
\* the driver has been stopped exactly once.
C29_BrowserCleanup ==
    pc \in {"scrape_done", "scrape_raised"}
        => close_calls = 1 /\ stop_calls = 1

=============================================================================
